---------------------------- MODULE Spec2Model ----------------------------
(***************************************************************************)
(* A model of mini_snowflake: the worker registry, the SELECT planner and  *)
(* dispatcher of the orchestrator, the SQL engine the plan statements run  *)
(* on, and the worker's CREATE / DROP / INSERT handlers over the shared    *)
(* file system.                                                            *)
(***************************************************************************)
EXTENDS Integers, Sequences, FiniteSets, TLC

(***************************************************************************)
(* Generic helpers.                                                        *)
(***************************************************************************)

\* Python's None / an optional value: the empty set, or a one-element set.
NoneV == {}

SomeV(x) == {x}

TheV(o) == CHOOSE x \in o : TRUE

Max2(a, b) == IF a >= b THEN a ELSE b

Min2(a, b) == IF a <= b THEN a ELSE b

RECURSIVE Pow2(_)
Pow2(e) == IF e = 0 THEN 1 ELSE 2 * Pow2(e - 1)

RECURSIVE Gcd(_, _)
Gcd(a, b) == IF b = 0 THEN a ELSE Gcd(b, a % b)

Abs(a) == IF a < 0 THEN 0 - a ELSE a

RECURSIVE SetToSeq(_)
SetToSeq(S) ==
    IF S = {} THEN <<>>
    ELSE LET x == CHOOSE y \in S : TRUE IN <<x>> \o SetToSeq(S \ {x})

RECURSIVE JoinStr(_)
JoinStr(parts) ==
    IF parts = <<>> THEN "" ELSE Head(parts) \o JoinStr(Tail(parts))

Range(s) == {s[i] : i \in DOMAIN s}

\* The first occurrence of every element of s, in order.
RECURSIVE Dedupe(_)
Dedupe(s) ==
    IF s = <<>> THEN <<>>
    ELSE LET front == Dedupe(SubSeq(s, 1, Len(s) - 1))
         IN  IF \E i \in DOMAIN front : front[i] = s[Len(s)]
             THEN front ELSE Append(front, s[Len(s)])

\* The concatenation of the sequences of ss (by halves, to keep the
\* evaluation shallow).
RECURSIVE Flatten(_)
Flatten(ss) ==
    IF ss = <<>> THEN <<>>
    ELSE IF Len(ss) = 1 THEN ss[1]
    ELSE LET h == Len(ss) \div 2
         IN  Flatten(SubSeq(ss, 1, h)) \o Flatten(SubSeq(ss, h + 1, Len(ss)))

InSeq(x, s) == \E i \in DOMAIN s : s[i] = x

(***************************************************************************)
(* Names.  A name that passes through _safe_ident is kept as the sequence  *)
(* of its pieces, the characters "*", "." and "-" each a piece of their    *)
(* own, so that the replacement is computed and not assumed.               *)
(***************************************************************************)
Str(name) == JoinStr(name)

SafeIdent(x) ==
    [i \in DOMAIN x |->
        IF x[i] = "*" THEN "star"
        ELSE IF x[i] = "." THEN "_"
        ELSE IF x[i] = "-" THEN "_"
        ELSE x[i]]

\* f"shard-{i}.parquet" and the writer's f"tmp_shard-{i}.parquet".
ShardName(i) == <<"shard", "-", ToString(i), ".", "parquet">>

TmpShardName(i) == <<"tmp_", "shard", "-", ToString(i), ".", "parquet">>

\* A file of the database directory: the sub-directory ("" for the root) and
\* the file name.
PathOf(dir, name) == [dir |-> dir, name |-> name]

(***************************************************************************)
(* The SQL engine (DuckDB) on the statements the planner emits.  A parquet *)
(* file is its column list and its rows; a value is <<>> (NULL), <<n>> (an *)
(* integer), <<n, d>> (the quotient n/d in lowest terms) or <<s>> (a       *)
(* string).  The statements modelled are the aggregate ones: every select  *)
(* item is a grouping column or an aggregate.                              *)
(***************************************************************************)
Null == <<>>

Int1(n) == <<n>>

Ratio(n, d) ==
    LET g == Gcd(Abs(n), Abs(d)) IN <<n \div g, d \div g>>

\* Sum, minimum and maximum of a sequence of integer values (by halves).
RECURSIVE SumVals(_)
SumVals(vs) ==
    IF vs = <<>> THEN 0
    ELSE IF Len(vs) = 1 THEN vs[1][1]
    ELSE LET h == Len(vs) \div 2
         IN  SumVals(SubSeq(vs, 1, h)) + SumVals(SubSeq(vs, h + 1, Len(vs)))

RECURSIVE MinVals(_)
MinVals(vs) ==
    IF Len(vs) = 1 THEN vs[1][1]
    ELSE LET h == Len(vs) \div 2
         IN  Min2(MinVals(SubSeq(vs, 1, h)), MinVals(SubSeq(vs, h + 1, Len(vs))))

RECURSIVE MaxVals(_)
MaxVals(vs) ==
    IF Len(vs) = 1 THEN vs[1][1]
    ELSE LET h == Len(vs) \div 2
         IN  Max2(MaxVals(SubSeq(vs, 1, h)), MaxVals(SubSeq(vs, h + 1, Len(vs))))

NonNull(rows, c) ==
    LET IsSet(v) == v # Null
    IN  SelectSeq([i \in DOMAIN rows |-> rows[i][c]], IsSet)

\* An aggregate over the rows of one group: count ignores NULLs unless it is
\* count(*); sum, min and max of no value are NULL.
AggValue(f, c, rows) ==
    IF f = "count" /\ c = "*" THEN Int1(Len(rows))
    ELSE LET vs == NonNull(rows, c)
         IN  CASE f = "count" -> Int1(Len(vs))
               [] vs = <<>>   -> Null
               [] f = "sum"   -> Int1(SumVals(vs))
               [] f = "min"   -> Int1(MinVals(vs))
               [] f = "max"   -> Int1(MaxVals(vs))

\* The value of a select expression over the rows of one group.
\*   col: a grouping column; agg: f(a); div: sum(a) / nullif(sum(b), 0);
\*   avg: avg(a), the sum of the non-NULL values over their count.
ExprValue(e, rows) ==
    CASE e.f = "col" -> rows[1][e.a]
      [] e.f = "div" ->
            LET n == AggValue("sum", e.a, rows)
                d == AggValue("sum", e.b, rows)
            IN  IF n = Null \/ d = Null \/ d = Int1(0) THEN Null
                ELSE Ratio(n[1], d[1])
      [] e.f = "avg" ->
            LET vs == NonNull(rows, e.a)
            IN  IF vs = <<>> THEN Null ELSE Ratio(SumVals(vs), Len(vs))
      [] OTHER -> AggValue(e.f, e.a, rows)

\* The columns an expression reads.
ExprCols(e) ==
    CASE e.f = "div" -> {e.a, e.b}
      [] e.a = "*"  -> {}
      [] OTHER      -> {e.a}

\* A rendered predicate "<col> <op> <value>" on a row; a comparison with
\* NULL is not true.
PredHolds(p, row) ==
    LET v == row[p.col]
    IN  CASE p.op = "is null"     -> v = Null
          [] p.op = "is not null" -> v # Null
          [] v = Null             -> FALSE
          [] p.op = "="           -> v[1] = p.value
          [] p.op = "!="          -> v[1] # p.value
          [] p.op = "<"           -> v[1] < p.value
          [] p.op = "<="          -> v[1] <= p.value
          [] p.op = ">"           -> v[1] > p.value
          [] p.op = ">="          -> v[1] >= p.value

\* SELECT <select> FROM (UNION ALL of from) [WHERE where] [GROUP BY group].
\* With aggregates and no GROUP BY the result is one row, also over no rows.
SelectRows(sel, rows, where, group) ==
    LET Keep(r) == \A i \in DOMAIN where : PredHolds(where[i], r)
        kept == SelectSeq(rows, Keep)
        KeyOf(r) == [i \in DOMAIN group |-> r[group[i]]]
        keys == SetToSeq({KeyOf(kept[i]) : i \in DOMAIN kept})
        InGroup(k) == LET Same(r) == KeyOf(r) = k IN SelectSeq(kept, Same)
        OutRow(rs) == [c \in {sel[i].as : i \in DOMAIN sel} |->
                         LET i == CHOOSE j \in DOMAIN sel : sel[j].as = c
                         IN  ExprValue(sel[i].e, rs)]
    IN  IF group = <<>>
        THEN <<OutRow(kept)>>
        ELSE [i \in DOMAIN keys |-> OutRow(InGroup(keys[i]))]

\* Whether the engine can run the statement on the files at hand: every
\* source exists, the sources agree on their columns (UNION ALL), and every
\* column the statement names is a column of the sources.
StmtRuns(stmt, fs) ==
    /\ \A i \in DOMAIN stmt.from : stmt.from[i] \in DOMAIN fs
    /\ \A i \in DOMAIN stmt.from : fs[stmt.from[i]].cols = fs[stmt.from[1]].cols
    /\ LET cols == Range(fs[stmt.from[1]].cols)
           used == UNION {ExprCols(stmt.select[i].e) : i \in DOMAIN stmt.select}
                     \cup Range(stmt.group)
                     \cup {stmt.where[i].col : i \in DOMAIN stmt.where}
       IN  /\ used \subseteq cols
           /\ \A i \in DOMAIN stmt.select :
                 stmt.select[i].e.f = "col" => stmt.select[i].e.a \in Range(stmt.group)

\* COPY (<select>) TO '<out>' (FORMAT PARQUET): the file the statement writes.
StmtOutput(stmt, fs) ==
    [cols |-> [i \in DOMAIN stmt.select |-> stmt.select[i].as],
     rows |-> SelectRows(stmt.select,
                         Flatten([i \in DOMAIN stmt.from |-> fs[stmt.from[i]].rows]),
                         stmt.where, stmt.group)]

(***************************************************************************)
(* query_maker: the SQL of the map, reduction and final statements.  A     *)
(* statement is kept as the parts of its text: the sources of its UNION    *)
(* ALL, its select list (expression, AS name), its WHERE and GROUP BY, and *)
(* the file COPY writes.  A query is                                       *)
(*   [table, select, where, group_by], select items                       *)
(*   [t |-> "col", name] or [t |-> "agg", func, col, alias] (alias "" for  *)
(*   none), where and group_by optional.                                   *)
(***************************************************************************)
ColE(c) == [f |-> "col", a |-> c, b |-> ""]

AggE(f, c) == [f |-> f, a |-> c, b |-> ""]

DivE(n, d) == [f |-> "div", a |-> n, b |-> d]

IsAgg(s) == s.t = "agg"

IsCol(s) == s.t = "col"

unparse_where_clause(clause) ==
    LET op == CASE clause.op = "is_null"     -> "is null"
                [] clause.op = "is_not_null" -> "is not null"
                [] OTHER                     -> clause.op
    IN  [col |-> clause.col, op |-> op, value |-> clause.value]

iter_aggs(q) == SelectSeq(q.select, IsAgg)

group_cols(q) ==
    IF q.group_by # NoneV THEN TheV(q.group_by)
    ELSE IF iter_aggs(q) # <<>>
    THEN LET cs == SelectSeq(q.select, IsCol) IN [i \in DOMAIN cs |-> cs[i].name]
    ELSE <<>>

\* The first sum(col) of the select list, or None.
has_sum_for_col(q, col) ==
    LET hits == {i \in DOMAIN q.select :
                    IsAgg(q.select[i]) /\ q.select[i].func = "sum"
                        /\ q.select[i].col = col}
    IN  IF hits = {} THEN NoneV
        ELSE SomeV(q.select[CHOOSE i \in hits : \A j \in hits : i <= j])

map_alias(func, col) ==
    LET col_id == Str(SafeIdent(col))
    IN  CASE func = "count" -> "c_" \o col_id
          [] func = "sum"   -> "s_" \o col_id
          [] func = "min"   -> "min_" \o col_id
          [] func = "max"   -> "max_" \o col_id

merge_func(func) ==
    CASE func \in {"count", "sum"} -> "sum"
      [] func \in {"min", "max"}   -> func

required_map_measures(q) ==
    LET aggs == iter_aggs(q)
        Expand(a) ==
            IF a.func = "avg"
            THEN <<[func |-> "sum", col |-> a.col], [func |-> "count", col |-> a.col]>>
            ELSE <<[func |-> a.func, col |-> a.col]>>
    IN  Dedupe(Flatten([i \in DOMAIN aggs |-> Expand(aggs[i])]))

AliasOr(alias, default) == IF alias # "" THEN alias ELSE default

create_map_select(q, shard_name) ==
    LET group == group_cols(q)
        cs == SelectSeq(q.select, IsCol)
        names == Dedupe([i \in DOMAIN cs |-> cs[i].name] \o group)
        ms == required_map_measures(q)
    IN  [from   |-> <<PathOf(q.table, Str(shard_name))>>,
         select |-> [i \in DOMAIN names |-> [e |-> ColE(names[i]), as |-> names[i]]]
                    \o [i \in DOMAIN ms |->
                          [e |-> AggE(ms[i].func, Str(ms[i].col)),
                           as |-> map_alias(ms[i].func, ms[i].col)]],
         where  |-> IF q.where = NoneV THEN <<>>
                    ELSE [i \in DOMAIN TheV(q.where) |->
                            unparse_where_clause(TheV(q.where)[i])],
         group  |-> group]

\* Map statements that all write one file.
create_map_job_one_output(q, shard_name, tmp_dir) ==
    LET out_path == PathOf(tmp_dir, Str(<<"map__", q.table, "__">> \o <<".parquet">>))
    IN  [sql |-> create_map_select(q, shard_name) @@ [out |-> out_path],
         out |-> out_path]

create_map_job(q, shard_name, tmp_dir) ==
    LET out_path == PathOf(tmp_dir,
                       Str(<<"map__", q.table, "__">> \o SafeIdent(shard_name)
                           \o <<".parquet">>))
    IN  [sql |-> create_map_select(q, shard_name) @@ [out |-> out_path],
         out |-> out_path]

\* The select items of a reduction statement for one aggregate of the query.
ReduceItems(q, item) ==
    IF item.func = "avg"
    THEN LET avg_alias == AliasOr(item.alias, "avg_" \o Str(SafeIdent(item.col)))
         IN  <<[e |-> AggE("sum", map_alias("count", item.col)),
                as |-> avg_alias \o "_count_partial"]>>
             \o (IF has_sum_for_col(q, item.col) = NoneV
                 THEN <<[e |-> AggE("sum", map_alias("sum", item.col)),
                         as |-> avg_alias \o "_sum_partial"]>>
                 ELSE <<>>)
    ELSE LET out_alias ==
                 IF item.func = "count" /\ item.col = <<"*">> THEN "count_star_partial"
                 ELSE IF item.alias # "" THEN item.alias \o "_partial"
                 ELSE item.func \o "_" \o Str(SafeIdent(item.col)) \o "_partial"
         IN  <<[e |-> AggE(merge_func(item.func), map_alias(item.func, item.col)),
                as |-> out_alias]>>

create_intermediate_reduce_select(q, map_outputs) ==
    LET group == group_cols(q)
        aggs == iter_aggs(q)
    IN  [from   |-> map_outputs,
         select |-> [i \in DOMAIN group |-> [e |-> ColE(group[i]), as |-> group[i]]]
                    \o Flatten([i \in DOMAIN aggs |-> ReduceItems(q, aggs[i])]),
         where  |-> <<>>,
         group  |-> group]

\* A reduction statement that leaves out the last of its inputs.
create_intermediate_reduce_job_drops_last(q, map_outputs, tmp_dir, tag) ==
    LET out_path == PathOf(tmp_dir,
                       Str(<<"reduce__", q.table, "__">> \o SafeIdent(tag)
                           \o <<".parquet">>))
        kept == SubSeq(map_outputs, 1, Len(map_outputs) - 1)
    IN  [sql |-> create_intermediate_reduce_select(q, kept) @@ [out |-> out_path],
         out |-> out_path]

create_intermediate_reduce_job(q, map_outputs, tmp_dir, tag) ==
    LET out_path == PathOf(tmp_dir,
                       Str(<<"reduce__", q.table, "__">> \o SafeIdent(tag)
                           \o <<".parquet">>))
    IN  [sql |-> create_intermediate_reduce_select(q, map_outputs) @@ [out |-> out_path],
         out |-> out_path]

\* The select item of the final statement for one aggregate of the query.
FinalItem(q, item, inputs_level) ==
    LET dflt == item.func \o "_" \o Str(SafeIdent(item.col))
        avg_alias == AliasOr(item.alias, "avg_" \o Str(SafeIdent(item.col)))
    IN  IF inputs_level = "map"
        THEN CASE item.func = "avg" ->
                    [e |-> DivE(map_alias("sum", item.col), map_alias("count", item.col)),
                     as |-> avg_alias]
               [] item.func = "count" /\ item.col = <<"*">> ->
                    [e |-> AggE("sum", "c_star"), as |-> AliasOr(item.alias, "count_star")]
               [] item.func \in {"sum", "count"} ->
                    [e |-> AggE("sum", map_alias(item.func, item.col)),
                     as |-> AliasOr(item.alias, dflt)]
               [] item.func \in {"min", "max"} ->
                    [e |-> AggE(item.func, map_alias(item.func, item.col)),
                     as |-> AliasOr(item.alias, dflt)]
        ELSE CASE item.func = "avg" ->
                    LET sum_agg == has_sum_for_col(q, item.col)
                        sum_partial_col ==
                            IF sum_agg # NoneV
                            THEN AliasOr(TheV(sum_agg).alias,
                                         "sum_" \o Str(SafeIdent(TheV(sum_agg).col)))
                                     \o "_partial"
                            ELSE avg_alias \o "_sum_partial"
                    IN  [e |-> DivE(sum_partial_col, avg_alias \o "_count_partial"),
                         as |-> avg_alias]
               [] item.func = "count" /\ item.col = <<"*">> ->
                    [e |-> AggE("sum", "count_star_partial"),
                     as |-> AliasOr(item.alias, "count_star")]
               [] OTHER ->
                    [e |-> AggE(merge_func(item.func),
                                AliasOr(item.alias, dflt) \o "_partial"),
                     as |-> AliasOr(item.alias, dflt)]

create_final_reduce_select(q, inputs, inputs_level) ==
    LET group == group_cols(q)
        aggs == iter_aggs(q)
    IN  [from   |-> inputs,
         select |-> [i \in DOMAIN group |-> [e |-> ColE(group[i]), as |-> group[i]]]
                    \o [i \in DOMAIN aggs |-> FinalItem(q, aggs[i], inputs_level)],
         where  |-> <<>>,
         group  |-> group]

create_final_reduce_job(q, inputs, out_path, inputs_level) ==
    [sql |-> create_final_reduce_select(q, inputs, inputs_level) @@ [out |-> out_path],
     out |-> out_path]

(***************************************************************************)
(* orchestrator: the fanout and the planner.                               *)
(***************************************************************************)
R_target == 16000000

k_min == 2

k_max == 256

\* The fanout clamped from above only.
get_fanout_no_floor(num_rows_per_shard) ==
    LET m == Max2(1, num_rows_per_shard)
        RootTwoR == 22627416
        exps == {j \in 0..24 : m <= RootTwoR \div Pow2(j)}
        e == CHOOSE j \in exps : \A i \in exps : i <= j
        k == IF R_target <= m THEN 1 ELSE Pow2(e)
    IN  Min2(k, k_max)

\* k = 1 if ratio <= 1 else 1 << round(log2(ratio)), clamped to
\* [k_min, k_max], for ratio = R_target / max(1, n).  round(log2(ratio)) >= j
\* iff ratio >= 2^(j - 1/2) iff m * 2^j <= R_target * sqrt(2), and m * 2^j
\* being an integer, iff m <= floor(R_target * sqrt(2)) div 2^j.
get_fanout(num_rows_per_shard) ==
    LET m == Max2(1, num_rows_per_shard)
        RootTwoR == 22627416    \* floor(16000000 * sqrt(2))
        exps == {j \in 0..24 : m <= RootTwoR \div Pow2(j)}
        e == CHOOSE j \in exps : \A i \in exps : i <= j
        k == IF R_target <= m THEN 1 ELSE Pow2(e)
    IN  Max2(k_min, Min2(k, k_max))

\* Chunks of two paths whatever the fanout.
ChunksInPairs(paths, fanout) ==
    [j \in 1..((Len(paths) + 1) \div 2) |->
        SubSeq(paths, (j - 1) * 2 + 1, Min2(j * 2, Len(paths)))]

\* current_paths[i : i + fanout] for i in range(0, len, fanout).
Chunks(paths, fanout) ==
    [j \in 1..((Len(paths) + fanout - 1) \div fanout) |->
        SubSeq(paths, (j - 1) * fanout + 1, Min2(j * fanout, Len(paths)))]

\* The while loop of _planner: the reduction levels and the paths they leave.
RECURSIVE ReduceLevels(_, _, _, _, _)
ReduceLevels(q, current_paths, fanout, tmp_path, level) ==
    IF Len(current_paths) > fanout
    THEN LET chunks == Chunks(current_paths, fanout)
             jobs == [j \in DOMAIN chunks |->
                        create_intermediate_reduce_job(q, chunks[j], tmp_path,
                            <<"r", ToString(level), "_", ToString(j - 1)>>)]
             rest == ReduceLevels(q, [j \in DOMAIN jobs |-> jobs[j].out],
                                  fanout, tmp_path, level + 1)
         IN  [levels |-> <<[j \in DOMAIN jobs |-> jobs[j].sql]>> \o rest.levels,
              paths  |-> rest.paths]
    ELSE [levels |-> <<>>, paths |-> current_paths]

\* The level the final statement is told its inputs come from.
FinalInputsLevel(current_paths, fanout) ==
    IF Len(current_paths) > fanout THEN "interm" ELSE "map"

planner(q, shards, out_path, tmp_path) ==
    LET fanout == get_fanout(Len(shards))
        maps == [i \in DOMAIN shards |-> create_map_job(q, shards[i], tmp_path)]
        red == ReduceLevels(q, [i \in DOMAIN maps |-> maps[i].out], fanout, tmp_path, 0)
        final == create_final_reduce_job(q, red.paths, out_path,
                                         FinalInputsLevel(red.paths, fanout))
    IN  <<[i \in DOMAIN maps |-> maps[i].sql]>> \o red.levels \o <<<<final.sql>>>>

(***************************************************************************)
(* Bounds and inputs.                                                      *)
(***************************************************************************)
\* The clock counts ticks of half a second, the dispatcher's polling sleep.
TicksPerSecond == 2

\* The clock stops at MaxNow ticks.
MaxNow == 200

\* The ticks left on the clock where a run does not follow the time.
SleepRoom == 2

WorkerIds == {"w1", "w2"}

\* The table the SELECT statements read, and its two columns.
SelectTable == "events"

TableCols == <<"g", "v">>

Tables == {"events", "users"}

\* The shard counts of the table a SELECT reads: 257 is the smallest count
\* above the fanout the planner picks for it (256).
ShardCounts == {1, 2, 3, 257}

\* Shard contents.  Shard i of the table holds the rows of pattern
\* ((i + offset) mod 4) + 1; with offset 0 the column v of the first three
\* shards is [1, 2, 3], [4], [5, 5, 5, 5].
Row(g, v) == [g |-> g, v |-> v]

ShardPatterns ==
    << <<Row(<<"a">>, <<1>>), Row(<<"a">>, <<2>>), Row(<<"b">>, <<3>>)>>,
       <<Row(<<"a">>, <<4>>)>>,
       <<Row(<<"b">>, <<5>>), Row(<<"b">>, <<5>>), Row(<<"b">>, <<5>>),
         Row(<<"b">>, <<5>>)>>,
       <<Row(<<"b">>, Null), Row(Null, <<2>>), Row(<<"a">>, <<1>>)>> >>

DataOffsets == {0, 1}

ShardRows(i, offset) == ShardPatterns[((i + offset) % Len(ShardPatterns)) + 1]

Col(name) == [t |-> "col", name |-> name]

Agg(func, col, alias) == [t |-> "agg", func |-> func, col |-> col, alias |-> alias]

Pred(col, op, value) == [col |-> col, op |-> op, value |-> value]

SelectQ(select, where, group_by) ==
    [table |-> SelectTable, select |-> select, where |-> where, group_by |-> group_by]

\* The SELECT statements dispatched.
Queries ==
    { SelectQ(<<Agg("avg", <<"v">>, "")>>, NoneV, NoneV),
      SelectQ(<<Col("g"), Agg("count", <<"*">>, ""), Agg("avg", <<"v">>, "avg_value")>>,
              SomeV(<<Pred("v", ">=", 2), Pred("g", "is_not_null", 0)>>),
              SomeV(<<"g">>)),
      SelectQ(<<Agg("sum", <<"v">>, "total"), Agg("avg", <<"v">>, ""),
                Agg("min", <<"v">>, ""), Agg("max", <<"v">>, "hi"),
                Agg("count", <<"v">>, "")>>, NoneV, NoneV),
      SelectQ(<<Col("g"), Agg("max", <<"v">>, "")>>,
              SomeV(<<Pred("v", "<", 5)>>), SomeV(<<"g">>)) }

(***************************************************************************)
(* State.                                                                  *)
(***************************************************************************)
VARIABLES
    now,          \* the clock, in ticks
    workers,      \* WorkerRegistry.workers: the records, in insertion order
    files,        \* the parquet files of the database directory, by path
    dirs,         \* the sub-directories of the database directory
    json_files,   \* catalog.json, the manifest.json files and their .tmp
                  \* files, by path
    query,        \* orchestrate_select: the query, None before it starts
    plan_levels,  \* orchestrate_select: the plan
    level_i,      \* orchestrate_select: position of the current level (from 1)
    sql_i,        \* orchestrate_select: position in the level (from 1)
    executions,   \* orchestrate_select: the records of the RPCs returned
    wait_start,   \* orchestrate_select: monotonic() before the loop
    worker,       \* orchestrate_select: what the worker-wait returned
    dpc,          \* orchestrate_select: where the dispatcher stands
    response,     \* orchestrate_select: the response returned, None before
    sent          \* the statements sent to workers, in order: <<level, index>>

regVars == <<now, workers>>

diskVars == <<files, dirs, json_files>>

selVars == <<query, plan_levels, level_i, sql_i, executions, wait_start, worker,
             dpc, response, sent>>

VARIABLES
    next_id,      \* the table ids handed out so far (uuid4 never repeats)
    wpc,          \* worker: where the request in hand stands
    wreq,         \* worker: the request in hand
    wcat,         \* worker: conn.catalog.tables, in memory
    wman,         \* worker: the Manifest object, in memory
    wlast,        \* worker_insert: last_shard
    wtb,          \* worker_insert: the validated table
    wglob,        \* worker_insert: what is left of sorted(glob(...))
    waw,          \* _atomic_write_text: path, text, and where to go on
    wresult,      \* worker: the answer to the last request, None before
    before        \* the files as the request in hand found them

wrkVars == <<next_id, wpc, wreq, wcat, wman, wlast, wtb, wglob, waw, wresult,
             before>>

VARIABLES
    cpc,          \* worker client: where the registration thread of each worker stands
    cwake,        \* worker client: when the sleep of each thread ends
    http_status,  \* the status of the registry API's last answer, 0 for none
    reg_start,    \* when the registry in memory was constructed
    la,           \* the call of list_active() in progress
    hb            \* the call of heartbeat() in progress

cliVars == <<cpc, cwake, http_status, reg_start, la, hb>>

VARIABLE fanout_call    \* the last call of _get_fanout: its input and its result

VARIABLES
    rt,           \* route_external_query: where the call stands and its answer
    parse_call,   \* the last call of parse: its tokens and its outcome
    load_call     \* the last call of Manifest.from_dict: the document, the outcome

callVars == <<rt, parse_call, load_call>>

VARIABLES
    wait_began,   \* history: the clock when the wait for the current statement's worker
                  \* began; None in the specifications that do not time the waits
    sel2,         \* a second orchestrate_select running on the same database path
    req2          \* a second request in the hands of the same worker

conVars == <<wait_began, sel2, req2>>

\* No call of route_external_query in hand.
RouteIdle ==
    [pc |-> "idle", toks |-> <<>>, query |-> NoneV, task |-> NoneV,
     chosen |-> NoneV, rpcs |-> 0, out |-> NoneV, err |-> ""]

(***************************************************************************)
(* The files of the database directory.                                    *)
(***************************************************************************)
DbDir == ""

CatalogPath == PathOf(DbDir, "catalog.json")

ManifestPath(t) == PathOf(t, "manifest.json")

\* What a reader finds at a JSON path: None when the file is absent.
ReadJson(p) == IF p \in DOMAIN json_files THEN SomeV(json_files[p]) ELSE NoneV

\* A file opened for writing whose text is not all there.
Partial == [partial |-> TRUE]

\* Catalog.to_dict: the tables and their ids.
CatalogDoc(tables) == [version |-> 1, tables |-> tables]

default_rows_per_shard == 100000

\* Manifest(table_name, schema) with a fresh table_id, and Manifest.to_dict.
Manifest(table_name, schema, table_id) ==
    [manifest_version |-> 1, table_name |-> table_name, table_id |-> table_id,
     rows_per_shard |-> default_rows_per_shard, schema |-> schema,
     shards |-> <<>>]

ColumnInfo(name, type, nullable) ==
    [name |-> name, type |-> type, nullable |-> nullable]

\* The schema of the tables created.
TableSchema ==
    <<ColumnInfo("g", "varchar", TRUE), ColumnInfo("v", "smallint", FALSE)>>

FnRemove(f, k) == [x \in DOMAIN f \ {k} |-> f[x]]

FnRestrict(f, S) == [x \in S |-> f[x]]

(***************************************************************************)
(* WorkerRegistry.                                                         *)
(***************************************************************************)
ttl_seconds == 45

ttl == ttl_seconds * TicksPerSecond

\* base_url.rstrip("/"): a URL is its pieces, trailing slashes pieces of
\* their own.
RECURSIVE RStripSlash(_)
RStripSlash(url) ==
    IF url # <<>> /\ url[Len(url)] = "/"
    THEN RStripSlash(SubSeq(url, 1, Len(url) - 1)) ELSE url

IndexOfWorker(ws, worker_id) ==
    LET hits == {i \in DOMAIN ws : ws[i].worker_id = worker_id}
    IN  IF hits = {} THEN 0 ELSE CHOOSE i \in hits : TRUE

\* self.workers[worker_id] = WorkerInfo(...): a dict keeps the place of a
\* key it already holds.
upsert(ws, worker_id, base_url, load, t) ==
    LET info == [worker_id |-> worker_id, base_url |-> RStripSlash(base_url),
                 last_seen |-> t, load |-> load]
        i == IndexOfWorker(ws, worker_id)
    IN  IF i = 0 THEN Append(ws, info) ELSE [ws EXCEPT ![i] = info]

\* heartbeat of a known worker; base_url and load are optional.
\* A heartbeat that takes a missing load for 0.
heartbeat_resets_load(ws, worker_id, base_url, load, t) ==
    LET i == IndexOfWorker(ws, worker_id)
    IN  [ws EXCEPT ![i] =
            [worker_id |-> worker_id,
             base_url  |-> IF base_url # NoneV /\ TheV(base_url) # <<>>
                           THEN RStripSlash(TheV(base_url)) ELSE @.base_url,
             last_seen |-> t,
             load      |-> IF load # NoneV THEN TheV(load) ELSE 0]]

heartbeat(ws, worker_id, base_url, load, t) ==
    LET i == IndexOfWorker(ws, worker_id)
    IN  [ws EXCEPT ![i] =
            [worker_id |-> worker_id,
             base_url  |-> IF base_url # NoneV /\ TheV(base_url) # <<>>
                           THEN RStripSlash(TheV(base_url)) ELSE @.base_url,
             last_seen |-> t,
             load      |-> IF load # NoneV THEN TheV(load) ELSE @.load]]

\* The registry with the TTL test written with < : a worker seen exactly
\* TTL ago is dropped from the list.
IsLiveStrict(w, t) == (t - w.last_seen) < ttl

IsLive(w, t) == (t - w.last_seen) <= ttl

list_active(ws, t) == LET Live(w) == IsLive(w, t) IN SelectSeq(ws, Live)

\* The selection policy: the first entry of list_active(), None when no
\* worker is live.
choose_worker(ws, t) ==
    IF list_active(ws, t) = <<>> THEN NoneV ELSE SomeV(list_active(ws, t)[1])

WorkerUrl(w) == <<"http://", w, ":8000", "/">>

\* POST /workers/register
Register(w) ==
    /\ workers' = upsert(workers, w, WorkerUrl(w), 0, now)
    /\ UNCHANGED <<wrkVars, cliVars, fanout_call, conVars, callVars, now, diskVars, selVars>>

\* POST /workers/heartbeat, as the worker's client sends it (no base_url,
\* load 0); an unknown worker gets KeyError (404) and nothing changes.
Heartbeat(w) ==
    /\ workers' = IF IndexOfWorker(workers, w) = 0 THEN workers
                  ELSE heartbeat(workers, w, NoneV, SomeV(0), now)
    /\ UNCHANGED <<wrkVars, cliVars, fanout_call, conVars, callVars, now, diskVars, selVars>>

\* Time passes.
TickSteps == {ttl, ttl + 1}

Tick(d) ==
    /\ now + d <= MaxNow
    /\ now' = now + d
    /\ UNCHANGED <<wrkVars, cliVars, fanout_call, conVars, callVars, workers, diskVars, selVars>>

(***************************************************************************)
(* orchestrate_select: the dispatcher.                                     *)
(***************************************************************************)
wait_timeout_s == 60

sleep_ticks == 1    \* sleep(0.5)

TmpDir == "tmp"

OutPath == PathOf("", "out.parquet")

PlanStmt(l, i) == plan_levels[l][i]

\* Lines 229-256: the temporary directory, the manifest, the plan.
SelectStart(q) ==
    /\ dpc = "idle"
    /\ query' = SomeV(q)
    /\ dirs' = dirs \cup {TmpDir}
    /\ IF ReadJson(ManifestPath(q.table)) = NoneV
       THEN \* Manifest.load raises FileNotFoundError
            /\ dpc' = "raised"
            /\ UNCHANGED <<plan_levels, wait_start, wait_began, response>>
       ELSE IF TheV(ReadJson(ManifestPath(q.table))).shards = <<>>
       THEN /\ dpc' = "done"
            /\ response' = SomeV([ok |-> FALSE, kind |-> "select",
                                  error |-> [msg |-> "No shards found"]])
            /\ UNCHANGED <<plan_levels, wait_start, wait_began>>
       ELSE /\ plan_levels' = planner(q, TheV(ReadJson(ManifestPath(q.table))).shards,
                                      OutPath, TmpDir)
            /\ wait_start' = now
            /\ wait_began' = IF wait_began = NoneV THEN NoneV ELSE SomeV(now)
            /\ dpc' = "wait"
            /\ UNCHANGED response
    /\ UNCHANGED <<wrkVars, cliVars, fanout_call, sel2, req2, callVars, regVars, files, json_files, level_i, sql_i, executions,
                   worker, sent>>

\* _get_first_worker_blocking, line 210-211: workers = registry.list_active().
WaitListActive ==
    /\ dpc = "wait"
    /\ dpc' = IF list_active(workers, now) # <<>> THEN "choose" ELSE "sleep"
    /\ UNCHANGED <<wrkVars, cliVars, fanout_call, conVars, callVars, regVars, diskVars, query, plan_levels, level_i, sql_i,
                   executions, wait_start, worker, response, sent>>

\* What choose_worker() does when no worker is live is not fixed by its
\* contract: it hands back None or it raises.
ChooseOutcomes == {"none", "raise"}

\* Line 212: return registry.choose_worker().  The registry is read a second
\* time, after the test of line 211.
WaitChoose ==
    /\ dpc = "choose"
    /\ \E o \in ChooseOutcomes :
          IF choose_worker(workers, now) = NoneV /\ o = "raise"
          THEN dpc' = "raised" /\ UNCHANGED worker
          ELSE dpc' = "send" /\ worker' = choose_worker(workers, now)
    /\ UNCHANGED <<wrkVars, cliVars, fanout_call, conVars, callVars, regVars, diskVars, query, plan_levels, level_i, sql_i,
                   executions, wait_start, response, sent>>

\* A wait that never gives up.
TimedOutNever(elapsed) == FALSE

\* Line 217: (monotonic() - wait_start) > wait_timeout_s.
TimedOut(elapsed) == elapsed > wait_timeout_s * TicksPerSecond

\* Lines 214-218 and 297-302: sleep(0.5), then the timeout test; the
\* TimeoutError is answered with ok = false.
Sleep(d) ==
    /\ dpc = "sleep"
    /\ now + d <= MaxNow
    /\ now' = now + d
    /\ IF TimedOut(now' - wait_start)
       THEN /\ dpc' = "done"
            /\ response' = SomeV([ok |-> FALSE, kind |-> "select",
                                  error |-> [msg |-> "No active workers became available before timeout",
                                             executions |-> executions]])
       ELSE /\ dpc' = "wait"
            /\ UNCHANGED response
    /\ UNCHANGED <<wrkVars, cliVars, fanout_call, conVars, callVars, workers, diskVars, query, plan_levels, level_i, sql_i,
                   executions, wait_start, worker, sent>>

WaitSleep == Sleep(sleep_ticks)

\* Lines 266-271: the request leaves for worker.base_url; None has no
\* base_url (AttributeError).
SendTask ==
    /\ dpc = "send"
    /\ IF worker = NoneV
       THEN dpc' = "raised" /\ UNCHANGED sent
       ELSE dpc' = "rpc" /\ sent' = Append(sent, <<level_i, sql_i>>)
    /\ UNCHANGED <<wrkVars, cliVars, fanout_call, conVars, callVars, regVars, diskVars, query, plan_levels, level_i, sql_i,
                   executions, wait_start, worker, response>>

ExecRec(ok) ==
    [job |-> Len(executions), level |-> level_i - 1,
     worker_id |-> TheV(worker).worker_id, worker_url |-> TheV(worker).base_url,
     ok |-> ok]

\* The dispatcher going on to the next statement whatever the answer.
AbortsNever(ok) == FALSE

\* Line 284: if not resp.ok.
Aborts(ok) == ~ok

\* The answer to a failed statement naming the failing step alone.
FailureResponseStepOnly(level, rec, execs) ==
    [ok |-> FALSE, kind |-> "select",
     error |-> [msg |-> "Execution failed", level |-> level,
                failed_step |-> rec, executions |-> <<rec>>]]

\* Lines 286-293: the answer to a failed statement.
FailureResponse(level, rec, execs) ==
    [ok |-> FALSE, kind |-> "select",
     error |-> [msg |-> "Execution failed", level |-> level,
                failed_step |-> rec, executions |-> execs]]

\* The worker's answer to the statement in flight and lines 271-295.  The
\* worker runs the statement on its engine (worker_select) and answers ok,
\* or answers ok = false (an engine error, or any other failure of the request);
\* a transport failure raises in send_task.
RpcReturn(outcome) ==
    /\ dpc = "rpc"
    /\ LET stmt == PlanStmt(level_i, sql_i)
           ok == outcome = "ok"
           rec == ExecRec(ok)
       IN  /\ outcome = "ok" => StmtRuns(stmt, files)
           /\ IF outcome = "raise"
              THEN /\ dpc' = "raised"
                   /\ UNCHANGED <<files, executions, level_i, sql_i, response>>
              ELSE /\ executions' = Append(executions, rec)
                   /\ IF Aborts(ok)
                      THEN /\ dpc' = "done"
                           /\ response' = SomeV(FailureResponse(level_i - 1, rec,
                                                                executions'))
                           /\ UNCHANGED <<files, level_i, sql_i>>
                      ELSE /\ files' = IF ok
                                       THEN (stmt.out :> StmtOutput(stmt, files)) @@ files
                                       ELSE files
                           /\ UNCHANGED response
                           /\ IF sql_i < Len(plan_levels[level_i])
                              THEN /\ sql_i' = sql_i + 1
                                   /\ dpc' = "wait"
                                   /\ UNCHANGED level_i
                              ELSE IF level_i < Len(plan_levels)
                              THEN /\ level_i' = level_i + 1
                                   /\ sql_i' = 1
                                   /\ dpc' = "wait"
                              ELSE /\ dpc' = "finish"
                                   /\ UNCHANGED <<level_i, sql_i>>
    /\ wait_began' = IF dpc' = "wait" /\ wait_began # NoneV THEN SomeV(now) ELSE wait_began
    /\ UNCHANGED <<wrkVars, cliVars, fanout_call, sel2, req2, callVars, regVars, dirs, json_files, query, plan_levels, wait_start,
                   worker, sent>>

RpcOutcomes == {"ok", "fail", "raise"}

\* The temporary directory left behind.
rmtree_dir_keeps(ds, dir) == ds

\* shutil.rmtree(dir), for the directories.
rmtree_dir(ds, dir) == ds \ {dir}

\* Lines 304-310: shutil.rmtree(tmp_path) and the answer.
SelectFinish ==
    /\ dpc = "finish"
    /\ dirs' = rmtree_dir(dirs, TmpDir)
    /\ files' = [p \in {x \in DOMAIN files : x.dir # TmpDir} |-> files[p]]
    /\ response' = SomeV([ok |-> executions[Len(executions)].ok, kind |-> "select",
                          result |-> OutPath])
    /\ dpc' = "done"
    /\ UNCHANGED <<wrkVars, cliVars, fanout_call, conVars, callVars, regVars, json_files, query, plan_levels, level_i, sql_i,
                   executions, wait_start, worker, sent>>

(***************************************************************************)
(* The worker: DBConn, _atomic_write_text, worker_create, worker_drop.     *)
(***************************************************************************)
\* The tables a table_id may still be drawn for.
MaxTableIds == 2

\* The steps of the worker that belong to _atomic_write_text.
AwPcs == {"aw_mkdir", "aw_open", "aw_write", "aw_replace"}

\* The request in hand is answered; what the worker held in memory is gone.
WorkerDone(ok, msg) ==
    /\ wresult' = SomeV([ok |-> ok, msg |-> msg])
    /\ before' = NoneV
    /\ wpc' = "idle"
    /\ wreq' = NoneV
    /\ wcat' = <<>>
    /\ wman' = NoneV
    /\ wlast' = 0
    /\ wtb' = NoneV
    /\ wglob' = <<>>
    /\ waw' = NoneV

\* The temporary file written in place of the final one.
TmpPathInPlace(path) == path

\* path.with_suffix(path.suffix + ".tmp")
TmpPath(path) == PathOf(path.dir, path.name \o ".tmp")

\* _atomic_write_text(path, text) is entered; ret is where its caller goes on.
StartWrite(path, text, ret) ==
    /\ waw' = SomeV([path |-> path, text |-> text, ret |-> ret])
    /\ wpc' = "aw_mkdir"

\* utils.py line 21: path.parent.mkdir(parents=True, exist_ok=True).
AtomicMkdir ==
    /\ wpc = "aw_mkdir"
    /\ dirs' = dirs \cup {DbDir, TheV(waw).path.dir}
    /\ wpc' = "aw_open"
    /\ UNCHANGED <<regVars, selVars, cliVars, fanout_call, conVars, callVars, files, json_files, next_id, wreq, wcat,
                   wman, wlast, wtb, wglob, waw, wresult, before>>

\* Lines 22-23: write_text opens the temporary file, which truncates it...
AtomicOpenTmp ==
    /\ wpc = "aw_open"
    /\ json_files' = (TmpPath(TheV(waw).path) :> Partial) @@ json_files
    /\ wpc' = "aw_write"
    /\ UNCHANGED <<regVars, selVars, cliVars, fanout_call, conVars, callVars, files, dirs, next_id, wreq, wcat, wman,
                   wlast, wtb, wglob, waw, wresult, before>>

\* ... and writes the text.
AtomicWriteTmp ==
    /\ wpc = "aw_write"
    /\ json_files' = (TmpPath(TheV(waw).path) :> TheV(waw).text) @@ json_files
    /\ wpc' = "aw_replace"
    /\ UNCHANGED <<regVars, selVars, cliVars, fanout_call, conVars, callVars, files, dirs, next_id, wreq, wcat, wman,
                   wlast, wtb, wglob, waw, wresult, before>>

\* Line 24: os.replace(tmp, path), which raises FileNotFoundError when
\* another writer has moved the temporary file away.
AtomicReplace ==
    /\ wpc = "aw_replace"
    /\ LET tmp == TmpPath(TheV(waw).path)
       IN  IF tmp \notin DOMAIN json_files
           THEN /\ WorkerDone(FALSE, "FileNotFoundError")
                /\ UNCHANGED json_files
           ELSE /\ json_files' =
                      IF tmp = TheV(waw).path THEN json_files
                      ELSE FnRemove((TheV(waw).path :> json_files[tmp]) @@ json_files, tmp)
                /\ wpc' = TheV(waw).ret
                /\ waw' = NoneV
                /\ UNCHANGED <<wreq, wcat, wman, wlast, wtb, wglob, wresult, before>>
    /\ UNCHANGED <<regVars, selVars, cliVars, fanout_call, conVars, callVars, files, dirs, next_id>>

\* Catalog.drop_table that leaves the entry in place.
drop_table_keeps(tables, table_name) == tables

\* Catalog.drop_table, once _table_in_catalog has answered True.
drop_table(tables, table_name) == FnRemove(tables, table_name)

\* Catalog.create_table, the table not being in the catalog.
create_table(tables, table_name, table_id) == (table_name :> table_id) @@ tables

\* DBConn(path, exist_ok) and the dispatch of execute_task: the database
\* directory, then the catalog loaded from catalog.json, or a new one saved
\* when there is none.
OpenConn(req, exist_ok) ==
    /\ wpc = "idle"
    /\ IF DbDir \in dirs /\ ~exist_ok
       THEN \* mkdir raises FileExistsError
            /\ wresult' = SomeV([ok |-> FALSE, msg |-> "FileExistsError"])
            /\ UNCHANGED <<wpc, wreq, wcat, waw, dirs, before>>
       ELSE /\ dirs' = dirs \cup {DbDir}
            /\ IF ReadJson(CatalogPath) = NoneV
               THEN /\ wreq' = SomeV(req)
                    /\ wcat' = <<>>
                    /\ StartWrite(CatalogPath, CatalogDoc(<<>>), req.kind)
                    /\ before' = SomeV([files |-> files, json_files |-> json_files])
                    /\ wresult' = NoneV
               ELSE IF TheV(ReadJson(CatalogPath)) = Partial
               THEN \* json.loads raises
                    /\ wresult' = SomeV([ok |-> FALSE, msg |-> "JSONDecodeError"])
                    /\ UNCHANGED <<wpc, wreq, wcat, waw, before>>
               ELSE /\ wreq' = SomeV(req)
                    /\ wcat' = TheV(ReadJson(CatalogPath)).tables
                    /\ wpc' = req.kind
                    /\ before' = SomeV([files |-> files, json_files |-> json_files])
                    /\ wresult' = NoneV
                    /\ UNCHANGED waw
    /\ UNCHANGED <<regVars, selVars, cliVars, fanout_call, conVars, callVars, files, json_files, next_id, wman, wlast,
                   wtb, wglob>>

\* A catalog lookup that never finds the table.
get_table_never(tables, table_name) == NoneV

\* Catalog.get_table(table_name, exist_ok=True): the table's id, or None.
get_table(tables, table_name) ==
    IF table_name \in DOMAIN tables THEN SomeV(tables[table_name]) ELSE NoneV

\* worker_create, lines 83-105: the catalog test, the directory, the manifest
\* and the catalog entry in memory, and manifest.save entered.
Create ==
    /\ wpc = "create"
    /\ LET table == TheV(wreq).table
       IN  IF get_table(wcat, table) # NoneV
           THEN /\ WorkerDone(TRUE, "already created")
                /\ UNCHANGED <<dirs, next_id>>
           ELSE IF table \in dirs
           THEN \* table_path.mkdir raises FileExistsError
                /\ WorkerDone(FALSE, "FileExistsError")
                /\ UNCHANGED <<dirs, next_id>>
           ELSE /\ next_id <= MaxTableIds
                /\ dirs' = dirs \cup {table}
                /\ next_id' = next_id + 1
                /\ wman' = SomeV(Manifest(table, TheV(wreq).table_schema, next_id))
                /\ wcat' = create_table(wcat, table, next_id)
                /\ StartWrite(ManifestPath(table), TheV(wman'), "create_catalog")
                /\ UNCHANGED <<wreq, wlast, wtb, wglob, wresult, before>>
    /\ UNCHANGED <<regVars, selVars, cliVars, fanout_call, conVars, callVars, files, json_files>>

\* Line 106: conn.catalog.save(conn.catalog_path).
CreateSaveCatalog ==
    /\ wpc = "create_catalog"
    /\ StartWrite(CatalogPath, CatalogDoc(wcat), "return")
    /\ UNCHANGED <<regVars, selVars, cliVars, fanout_call, conVars, callVars, diskVars, next_id, wreq, wcat, wman, wlast,
                   wtb, wglob, wresult, before>>

\* shutil.rmtree empties the directory ...
RmtreeFiles(dir) ==
    /\ files' = FnRestrict(files, {p \in DOMAIN files : p.dir # dir})
    /\ json_files' = FnRestrict(json_files, {p \in DOMAIN json_files : p.dir # dir})

\* worker_drop, lines 120-128: the entry leaves the catalog in memory, then
\* rmtree starts on the table's directory if there is one.
Drop ==
    /\ wpc = "drop"
    /\ LET table == TheV(wreq).table
           if_exists == IF TheV(wreq).if_exists # NoneV
                        THEN TheV(TheV(wreq).if_exists) ELSE FALSE
       IN  IF table \notin DOMAIN wcat /\ ~if_exists
           THEN \* _table_in_catalog raises IndexError
                /\ WorkerDone(FALSE, "IndexError")
                /\ UNCHANGED <<files, json_files>>
           ELSE /\ wcat' = IF table \in DOMAIN wcat
                           THEN drop_table(wcat, table) ELSE wcat
                /\ IF table \in dirs
                   THEN /\ RmtreeFiles(table)
                        /\ wpc' = "drop_rmdir"
                        /\ UNCHANGED waw
                   ELSE /\ StartWrite(CatalogPath, CatalogDoc(wcat'), "return")
                        /\ UNCHANGED <<files, json_files>>
                /\ UNCHANGED <<wreq, wman, wlast, wtb, wglob, wresult, before>>
    /\ UNCHANGED <<regVars, selVars, cliVars, fanout_call, conVars, callVars, dirs, next_id>>

\* ... and removes it; line 130: conn.catalog.save(conn.catalog_path).
DropRmdir ==
    /\ wpc = "drop_rmdir"
    /\ dirs' = dirs \ {TheV(wreq).table}
    /\ StartWrite(CatalogPath, CatalogDoc(wcat), "return")
    /\ UNCHANGED <<regVars, selVars, cliVars, fanout_call, conVars, callVars, files, json_files, next_id, wreq, wcat,
                   wman, wlast, wtb, wglob, wresult, before>>

(***************************************************************************)
(* worker_insert.                                                          *)
(***************************************************************************)
\* The shards a manifest may list before the inserts stop.
MaxShards == 2

\* The file indices looked for by glob("tmp_shard-*.parquet").
MaxFileIndex == 12

\* int(s) of a decimal numeral.
ParseInt(s) == CHOOSE n \in 0..(MaxFileIndex + MaxShards + 1) : ToString(n) = s

\* _get_shard_i: re.search(r"shard-([^.]+)\.parquet", path), 0 without a match.
get_shard_i(name) ==
    IF /\ Len(name) = 5
       /\ name[1] = "shard" /\ name[2] = "-" /\ name[4] = "." /\ name[5] = "parquet"
    THEN ParseInt(name[3]) ELSE 0

\* last_shard without the step past the highest index.
last_shard_no_step(shards) ==
    IF shards = <<>> THEN 0
    ELSE LET is == {get_shard_i(shards[k]) : k \in DOMAIN shards}
         IN  CHOOSE m \in is : \A i \in is : i <= m

\* Lines 210-213.
last_shard(shards) ==
    IF shards = <<>> THEN 0
    ELSE LET is == {get_shard_i(shards[k]) : k \in DOMAIN shards}
         IN  (CHOOSE m \in is : \A i \in is : i <= m) + 1

\* DUCKDB_TO_ARROW.
DuckdbToArrow(type) ==
    CASE type = "smallint" -> "int16"
      [] type = "varchar"  -> "string"

Int16Min == -32768

Int16Max == 32767

\* A string pyarrow reads as an integer.
IsNumeral(str) == \E n \in 0..9 : ToString(n) = str

\* pa.compute.cast(arr, target_type, safe=True) succeeds.
CastIsSafe(from, to, vals) ==
    \A k \in DOMAIN vals :
        vals[k] # Null =>
            CASE from = to -> TRUE
              [] from = "int64" /\ to = "int16" ->
                     Int16Min <= vals[k][1] /\ vals[k][1] <= Int16Max
              [] from = "int64" /\ to = "string" -> TRUE
              [] from = "string" /\ to = "int16" -> IsNumeral(vals[k][1])

\* The value cast.
CastValue(from, to, v) ==
    IF v = Null \/ from = to THEN v
    ELSE CASE from = "int64" /\ to = "int16" -> v
           [] from = "int64" /\ to = "string" -> <<ToString(v[1])>>
           [] from = "string" /\ to = "int16" -> <<ParseInt(v[1])>>

ColumnOf(tb, name) == [k \in DOMAIN tb.rows |-> tb.rows[k][name]]

TypeOf(tb, name) ==
    tb.types[CHOOSE k \in DOMAIN tb.cols : tb.cols[k] = name]

\* _validate_insert_table without the test of the NOT NULL columns.
validate_insert_table_nulls_pass(tb, schema) ==
    LET expected == {schema[k].name : k \in DOMAIN schema}
    IN  IF ~(expected \subseteq Range(tb.cols)) THEN "Missing required columns"
        ELSE IF ~(Range(tb.cols) \subseteq expected) THEN "Unexpected columns"
        ELSE IF \E k \in DOMAIN schema :
                  ~CastIsSafe(TypeOf(tb, schema[k].name),
                              DuckdbToArrow(schema[k].type),
                              ColumnOf(tb, schema[k].name))
        THEN "cannot be safely cast"
        ELSE "ok"

\* _validate_insert_table, lines 149-179: "ok", or the error raised.
validate_insert_table(tb, schema) ==
    LET expected == {schema[k].name : k \in DOMAIN schema}
    IN  IF ~(expected \subseteq Range(tb.cols)) THEN "Missing required columns"
        ELSE IF ~(Range(tb.cols) \subseteq expected) THEN "Unexpected columns"
        ELSE IF \E k \in DOMAIN schema :
                  /\ ~schema[k].nullable
                  /\ \E i \in DOMAIN tb.rows : tb.rows[i][schema[k].name] = Null
        THEN "is NOT NULL but has nulls"
        ELSE IF \E k \in DOMAIN schema :
                  ~CastIsSafe(TypeOf(tb, schema[k].name),
                              DuckdbToArrow(schema[k].type),
                              ColumnOf(tb, schema[k].name))
        THEN "cannot be safely cast"
        ELSE "ok"

\* Line 181: the table returned, its columns those of the schema, cast.
CastTable(tb, schema) ==
    [cols |-> [k \in DOMAIN schema |-> schema[k].name],
     rows |-> [i \in DOMAIN tb.rows |->
                 [c \in {schema[k].name : k \in DOMAIN schema} |->
                     LET k == CHOOSE j \in DOMAIN schema : schema[j].name = c
                     IN  CastValue(TypeOf(tb, c), DuckdbToArrow(schema[k].type),
                                   tb.rows[i][c])]]]

\* ds.write_dataset(max_rows_per_file = rows_per_shard): the rows in files
\* of at most rows_per_shard rows, numbered from 0; no rows, no file.
DatasetFiles(tb, rows_per_shard) ==
    LET n == Len(tb.rows)
        k == (n + rows_per_shard - 1) \div rows_per_shard
    IN  [i \in 1..k |->
            [cols |-> tb.cols,
             rows |-> SubSeq(tb.rows, (i - 1) * rows_per_shard + 1,
                             Min2(n, i * rows_per_shard))]]

RECURSIVE Digits(_)
Digits(n) == IF n < 10 THEN <<n>> ELSE Append(Digits(n \div 10), n % 10)

\* "tmp_shard-<a>.parquet" < "tmp_shard-<b>.parquet" as strings: the digits
\* compared from the left, "." sorting before every digit.
RECURSIVE LexLess(_, _)
LexLess(a, b) ==
    IF a = <<>> THEN b # <<>>
    ELSE IF b = <<>> THEN FALSE
    ELSE IF a[1] # b[1] THEN a[1] < b[1]
    ELSE LexLess(Tail(a), Tail(b))

\* sorted(table_path.glob("tmp_shard-*.parquet")), as the file indices.
RECURSIVE SortedGlob(_)
SortedGlob(is) ==
    IF is = {} THEN <<>>
    ELSE LET i == CHOOSE x \in is :
                     \A y \in is \ {x} : LexLess(Digits(x), Digits(y))
         IN  <<i>> \o SortedGlob(is \ {i})

TmpShardsIn(fs, table) ==
    {i \in 0..MaxFileIndex : PathOf(table, Str(TmpShardName(i))) \in DOMAIN fs}

\* worker_insert, lines 192-221: the source is read, the table directory
\* and its manifest are looked up, and the data is validated.
Insert ==
    /\ wpc = "insert"
    /\ LET table == TheV(wreq).table
           src == TheV(wreq).src
           m == ReadJson(ManifestPath(table))
       IN  IF src.suffix \notin {".csv", ".parquet", ".pq"}
           THEN WorkerDone(FALSE, "Unsupported file type")
           ELSE IF table \notin dirs
           THEN WorkerDone(FALSE, "doesn't exist")
           ELSE IF m = NoneV
           THEN WorkerDone(FALSE, "doesn't have a Manifest")
           ELSE IF TheV(m) = Partial
           THEN WorkerDone(FALSE, "JSONDecodeError")
           ELSE IF validate_insert_table(src, TheV(m).schema) # "ok"
           THEN WorkerDone(FALSE, validate_insert_table(src, TheV(m).schema))
           ELSE /\ wman' = m
                /\ wlast' = last_shard(TheV(m).shards)
                /\ wtb' = SomeV(CastTable(src, TheV(m).schema))
                /\ wpc' = "insert_write"
                /\ UNCHANGED <<wreq, wcat, wglob, waw, wresult, before>>
    /\ UNCHANGED <<regVars, selVars, cliVars, fanout_call, conVars, callVars, diskVars, next_id>>

\* Lines 224-234: write_dataset leaves its files in the table directory, and
\* the directory is listed.
InsertWrite ==
    /\ wpc = "insert_write"
    /\ LET table == TheV(wreq).table
           rps == IF TheV(wreq).rows_per_shard # NoneV
                  THEN TheV(TheV(wreq).rows_per_shard)
                  ELSE TheV(wman).rows_per_shard
           out == DatasetFiles(TheV(wtb), rps)
           written == [p \in {PathOf(table, Str(TmpShardName(i - 1))) : i \in DOMAIN out} |->
                         out[CHOOSE i \in DOMAIN out :
                                 p = PathOf(table, Str(TmpShardName(i - 1)))]]
       IN  /\ files' = written @@ files
           /\ wglob' = SortedGlob(TmpShardsIn(files', table))
    /\ wpc' = "insert_rename"
    /\ UNCHANGED <<regVars, selVars, cliVars, fanout_call, conVars, callVars, dirs, json_files, next_id, wreq, wcat, wman,
                   wlast, wtb, waw, wresult, before>>

\* A rename that removes the file and leaves nothing under the new name.
rename_lost(fs, p, q) == FnRemove(fs, p)

\* Path.rename: the file is found under the new name only.
rename(fs, p, q) == FnRemove((q :> fs[p]) @@ fs, p)

\* Lines 234-238, one turn of the loop: the file renamed, its name appended
\* to manifest.shards.
InsertRename ==
    /\ wpc = "insert_rename"
    /\ wglob # <<>>
    /\ LET table == TheV(wreq).table
           p == PathOf(table, Str(TmpShardName(Head(wglob))))
           shard_i_name == ShardName(wlast + Head(wglob))
           q == PathOf(table, Str(shard_i_name))
       IN  /\ files' = rename(files, p, q)
           /\ wman' = SomeV([TheV(wman) EXCEPT !.shards = Append(@, shard_i_name)])
    /\ wglob' = Tail(wglob)
    /\ UNCHANGED <<regVars, selVars, cliVars, fanout_call, conVars, callVars, dirs, json_files, next_id, wpc, wreq, wcat,
                   wlast, wtb, waw, wresult, before>>

\* Line 241: manifest.save(manifest_path).
InsertSave ==
    /\ wpc = "insert_rename"
    /\ wglob = <<>>
    /\ StartWrite(ManifestPath(TheV(wreq).table), TheV(wman), "return")
    /\ UNCHANGED <<regVars, selVars, cliVars, fanout_call, conVars, callVars, diskVars, next_id, wreq, wcat, wman, wlast,
                   wtb, wglob, wresult, before>>

\* The handler returns its message and execute_task answers ok.
WorkerReturn ==
    /\ wpc = "return"
    /\ WorkerDone(TRUE, "Successfully")
    /\ UNCHANGED <<regVars, selVars, cliVars, fanout_call, conVars, callVars, diskVars, next_id>>

\* The worker process is killed: what it held in memory is gone, the files
\* stay as they are.
Crash ==
    /\ wpc # "idle"
    /\ wpc' = "idle"
    /\ wreq' = NoneV
    /\ wcat' = <<>>
    /\ wman' = NoneV
    /\ wlast' = 0
    /\ wtb' = NoneV
    /\ wglob' = <<>>
    /\ waw' = NoneV
    /\ wresult' = NoneV
    /\ before' = NoneV
    /\ UNCHANGED <<regVars, selVars, cliVars, fanout_call, conVars, callVars, diskVars, next_id>>

(***************************************************************************)
(* The requests the worker is given.                                       *)
(***************************************************************************)
CreateRequest(table, if_not_exists) ==
    [kind |-> "create", table |-> table, table_schema |-> TableSchema,
     if_not_exists |-> if_not_exists]

DropRequest(table, if_exists) ==
    [kind |-> "drop", table |-> table, if_exists |-> if_exists]

InsertRequest(table, src, rows_per_shard) ==
    [kind |-> "insert", table |-> table, src |-> src,
     rows_per_shard |-> rows_per_shard]

\* A source file as pandas and Arrow read it.
Source(suffix, cols, types, rows) ==
    [suffix |-> suffix, cols |-> cols, types |-> types, rows |-> rows]

TwoRows == Source(".csv", <<"g", "v">>, <<"string", "int64">>,
                  <<[g |-> <<"a">>, v |-> <<1>>], [g |-> Null, v |-> <<2>>]>>)

NoRows == Source(".csv", <<"g", "v">>, <<"null", "null">>, <<>>)

OneRowSwapped == Source(".parquet", <<"v", "g">>, <<"int64", "int64">>,
                        <<[v |-> <<3>>, g |-> <<7>>]>>)

\* The sources of the inserts: three that pass the validation, then one
\* with a column missing, one with a column too many, one with a null in a
\* NOT NULL column, two that cannot be cast, one of an unknown file type.
Sources ==
    << TwoRows, NoRows, OneRowSwapped,
      Source(".csv", <<"g">>, <<"string">>, <<[g |-> <<"a">>]>>),
      Source(".csv", <<"g", "v", "x">>, <<"string", "int64", "int64">>,
             <<[g |-> <<"a">>, v |-> <<1>>, x |-> <<1>>]>>),
      Source(".pq", <<"g", "v">>, <<"string", "int64">>,
             <<[g |-> <<"a">>, v |-> <<1>>], [g |-> <<"b">>, v |-> Null]>>),
      Source(".csv", <<"g", "v">>, <<"string", "int64">>,
             <<[g |-> <<"a">>, v |-> <<40000>>]>>),
      Source(".csv", <<"g", "v">>, <<"string", "string">>,
             <<[g |-> <<"a">>, v |-> <<"b">>]>>),
      Source(".json", <<"g", "v">>, <<"string", "int64">>,
             <<[g |-> <<"a">>, v |-> <<1>>]>>) >>

RowsPerShard == {NoneV, SomeV(1)}

\* The inserts stop once the table lists MaxShards shards.
CanTake(req) ==
    LET m == ReadJson(ManifestPath(req.table))
    IN  IF req.kind # "insert" \/ m = NoneV THEN TRUE
        ELSE IF TheV(m) = Partial THEN TRUE
        ELSE Len(TheV(m).shards) < MaxShards

(***************************************************************************)
(* Specifications.                                                         *)
(***************************************************************************)
vars == <<regVars, diskVars, selVars, wrkVars, cliVars, fanout_call, callVars, conVars>>

ShardFile(i, offset) == [cols |-> TableCols, rows |-> ShardRows(i, offset)]

\* A database whose table SelectTable has n shards.
InitTable(n, offset) ==
    /\ files = [p \in {PathOf(SelectTable, Str(ShardName(i))) : i \in 0..(n - 1)} |->
                   LET i == CHOOSE j \in 0..(n - 1) :
                                p = PathOf(SelectTable, Str(ShardName(j)))
                   IN  ShardFile(i, offset)]
    /\ dirs = {DbDir, SelectTable}
    /\ json_files =
          (CatalogPath :> CatalogDoc(SelectTable :> 1))
          @@ (ManifestPath(SelectTable) :>
                 [Manifest(SelectTable, TableSchema, 1) EXCEPT
                     !.shards = [i \in 1..n |-> ShardName(i - 1)]])

\* The worker at rest.
InitHandlers ==
    /\ next_id = 1
    /\ wpc = "idle"
    /\ wreq = NoneV
    /\ wcat = <<>>
    /\ wman = NoneV
    /\ wlast = 0
    /\ wtb = NoneV
    /\ wglob = <<>>
    /\ waw = NoneV
    /\ wresult = NoneV
    /\ before = NoneV
    /\ cpc = [w \in WorkerIds |-> "off"]
    /\ cwake = [w \in WorkerIds |-> 0]
    /\ http_status = 0
    /\ reg_start = now
    /\ la = [pc |-> "idle", n |-> 0, i |-> 0, t |-> 0, out |-> <<>>]
    /\ hb = [pc |-> "idle", w |-> "", u |-> NoneV, l |-> NoneV, stale |-> FALSE]
    /\ fanout_call = NoneV
    /\ rt = RouteIdle
    /\ parse_call = NoneV
    /\ load_call = NoneV
    /\ sel2 = NoneV
    /\ req2 = NoneV

\* The worker at rest; the waits of the dispatcher are not timed.
InitWorker ==
    /\ InitHandlers
    /\ wait_began = NoneV

InitSelect ==
    /\ query = NoneV
    /\ plan_levels = <<>>
    /\ level_i = 1
    /\ sql_i = 1
    /\ executions = <<>>
    /\ wait_start = 0
    /\ worker = NoneV
    /\ dpc = "idle"
    /\ response = NoneV
    /\ sent = <<>>

\* The dispatcher and the registry over small tables; the clock moves only
\* while the dispatcher sleeps.
Init ==
    /\ now = MaxNow - SleepRoom
    /\ workers = <<>>
    /\ \E n \in 0..2 : InitTable(n, 0)
    /\ InitSelect
    /\ InitWorker

Next ==
    \/ \E w \in WorkerIds : Register(w)
    \/ \E w \in WorkerIds : Heartbeat(w)
    \/ \E q \in Queries : SelectStart(q)
    \/ WaitListActive
    \/ WaitChoose
    \/ WaitSleep
    \/ SendTask
    \/ \E o \in RpcOutcomes : RpcReturn(o)
    \/ SelectFinish

Spec == Init /\ [][Next]_vars

\* The registry and one dispatch under the clock: time passes between any
\* two steps.
ClockQuery == SelectQ(<<Agg("avg", <<"v">>, "")>>, NoneV, NoneV)

InitClock ==
    /\ now = 0
    /\ workers = <<>>
    /\ InitTable(1, 0)
    /\ InitSelect
    /\ InitWorker

NextClock ==
    \/ \E w \in WorkerIds : Register(w)
    \/ \E w \in WorkerIds : Heartbeat(w)
    \/ \E d \in TickSteps : Tick(d)
    \/ SelectStart(ClockQuery)
    \/ WaitListActive
    \/ WaitChoose
    \/ WaitSleep
    \/ SendTask
    \/ \E o \in RpcOutcomes : RpcReturn(o)
    \/ SelectFinish

SpecClock == InitClock /\ [][NextClock]_vars

\* The wait for the worker of the first statement; a worker may register
\* at any moment.  The dispatcher is a running thread: its next step is
\* taken in the end.  Time passes in its sleeps, which last 0.5 s or, the
\* thread being woken late, up to 1 s.
WaitWorker == "w1"

Oversleep == Sleep(2 * sleep_ticks)

\* A worker last heard of more than the TTL before the query.
StaleWorker == upsert(<<>>, "w2", WorkerUrl("w2"), 0, 0 - (ttl + 1))

InitWait ==
    /\ now = 0
    /\ workers \in {<<>>, StaleWorker}
    /\ InitTable(1, 0)
    /\ InitSelect
    /\ InitWorker

WaitStep ==
    \/ WaitListActive
    \/ WaitChoose
    \/ WaitSleep
    \/ SendTask

NextWait ==
    \/ Register(WaitWorker)
    \/ Heartbeat(WaitWorker)
    \/ Oversleep
    \/ SelectStart(ClockQuery)
    \/ WaitListActive
    \/ WaitChoose
    \/ WaitSleep
    \/ SendTask

SpecWait == InitWait /\ [][NextWait]_vars /\ WF_vars(WaitStep)

(***************************************************************************)
(* The registry API and the worker's registration thread.                  *)
(***************************************************************************)
heartbeat_seconds == 10

retry_seconds == 1

\* A heartbeat period of 50 s, longer than the TTL.
hb_ticks_slow == 50 * TicksPerSecond

hb_ticks == heartbeat_seconds * TicksPerSecond

retry_ticks == retry_seconds * TicksPerSecond

\* POST /workers/heartbeat: the status answered and the registry after it.
post_heartbeat(ws, worker_id, base_url, load, t) ==
    IF IndexOfWorker(ws, worker_id) = 0
    THEN [status |-> 404, workers |-> ws]
    ELSE [status |-> 200, workers |-> heartbeat(ws, worker_id, base_url, load, t)]

\* POST /workers/register
post_register(ws, worker_id, base_url, load, t) ==
    [status |-> 200, workers |-> upsert(ws, worker_id, base_url, load, t)]

\* What becomes of a request: delivered and answered by the handler,
\* answered with a server error, or lost (requests raises).
NetOutcomes == {"delivered", "status500", "error"}

Answer(o, handled) ==
    IF o = "delivered" THEN handled
    ELSE [status |-> IF o = "status500" THEN 500 ELSE 0, workers |-> workers]

\* A registration loop left after its first request whatever the answer.
RegisterDoneAlways(status) == TRUE

\* Line 20: if r.status_code < 400: return (no status when requests raised).
RegisterDone(status) == status # 0 /\ status < 400

\* A heartbeat loop that takes 404 for any other error.
AfterHeartbeatSleeps(status) == "hb_sleep"

\* Lines 36-42: on 404 into register_once_with_retries, else the sleep.
AfterHeartbeat(status) == IF status = 404 THEN "reregister" ELSE "hb_sleep"

Sleeping == {"reg_sleep", "rereg_sleep", "hb_sleep"}

RegLoop == {"register", "reg_sleep", "reregister", "rereg_sleep"}

\* main.py, lifespan: the daemon thread starts at
\* registration_and_heartbeat_loop.
ClientStart(w) ==
    /\ cpc[w] = "off"
    /\ cpc' = [cpc EXCEPT ![w] = "register"]
    /\ UNCHANGED <<regVars, diskVars, selVars, wrkVars, fanout_call, conVars, callVars, cwake, http_status, reg_start, la, hb>>

\* register_once_with_retries, one turn of the loop: the request, then the
\* return (to heartbeat_forever, line 47, or to its sleep, line 42) or the
\* sleep of 1 s.
ClientRegister(w, o) ==
    /\ cpc[w] \in {"register", "reregister"}
    /\ LET a == Answer(o, post_register(workers, w, WorkerUrl(w), 0, now))
       IN  /\ workers' = a.workers
           /\ http_status' = a.status
           /\ IF RegisterDone(a.status)
              THEN IF cpc[w] = "register"
                   THEN /\ cpc' = [cpc EXCEPT ![w] = "heartbeat"]
                        /\ UNCHANGED cwake
                   ELSE /\ cpc' = [cpc EXCEPT ![w] = "hb_sleep"]
                        /\ cwake' = [cwake EXCEPT ![w] = now + hb_ticks]
              ELSE /\ cpc' = [cpc EXCEPT ![w] =
                                 IF cpc[w] = "register" THEN "reg_sleep" ELSE "rereg_sleep"]
                   /\ cwake' = [cwake EXCEPT ![w] = now + retry_ticks]
    /\ UNCHANGED <<now, diskVars, selVars, wrkVars, fanout_call, conVars, callVars, reg_start, la, hb>>

\* heartbeat_forever, one turn of the loop up to its sleep.
ClientHeartbeat(w, o) ==
    /\ cpc[w] = "heartbeat"
    /\ LET a == Answer(o, post_heartbeat(workers, w, NoneV, SomeV(0), now))
       IN  /\ workers' = a.workers
           /\ http_status' = a.status
           /\ cpc' = [cpc EXCEPT ![w] = AfterHeartbeat(a.status)]
           /\ cwake' = IF AfterHeartbeat(a.status) = "hb_sleep"
                       THEN [cwake EXCEPT ![w] = now + hb_ticks] ELSE cwake
    /\ UNCHANGED <<now, diskVars, selVars, wrkVars, fanout_call, conVars, callVars, reg_start, la, hb>>

\* The end of a time.sleep.
ClientWake(w) ==
    /\ cpc[w] \in Sleeping
    /\ now >= cwake[w]
    /\ cpc' = [cpc EXCEPT ![w] = IF cpc[w] = "reg_sleep" THEN "register"
                                 ELSE IF cpc[w] = "rereg_sleep" THEN "reregister"
                                 ELSE "heartbeat"]
    /\ UNCHANGED <<regVars, diskVars, selVars, wrkVars, fanout_call, conVars, callVars, cwake, http_status, reg_start, la, hb>>

\* POST /workers/heartbeat from any caller: base_url and load are optional.
OtherUrl(w) == <<"http://", w, ":9000", "/">>

PostHeartbeat(w, base_url, load) ==
    /\ workers' = post_heartbeat(workers, w, base_url, load, now).workers
    /\ http_status' = post_heartbeat(workers, w, base_url, load, now).status
    /\ UNCHANGED <<now, diskVars, selVars, wrkVars, fanout_call, conVars, callVars, cpc, cwake, reg_start, la, hb>>

\* The orchestrator process restarts: the registry is constructed anew.
Restart ==
    /\ workers # <<>>
    /\ workers' = <<>>
    /\ reg_start' = now
    /\ UNCHANGED <<now, diskVars, selVars, wrkVars, fanout_call, conVars, callVars, cpc, cwake, http_status, la, hb>>

\* Time passes, no sleep overrun and no thread held up outside its sleep.
BeatTick ==
    /\ now + 1 <= MaxNow
    /\ \A w \in WorkerIds : /\ cpc[w] \in Sleeping \cup {"off"}
                            /\ cpc[w] \in Sleeping => now + 1 <= cwake[w]
    /\ now' = now + 1
    /\ UNCHANGED <<workers, diskVars, selVars, wrkVars, fanout_call, conVars, callVars, cliVars>>

BeatRoom == 45

InitBeat ==
    /\ now = MaxNow - BeatRoom
    /\ workers = <<>>
    /\ InitTable(0, 0)
    /\ InitSelect
    /\ InitWorker

\* The registry API called by any client, with and without the optional
\* fields, under the clock.
NextApi ==
    \/ \E w \in WorkerIds : Register(w)
    \/ \E w \in WorkerIds : \E u \in {NoneV, SomeV(OtherUrl(w))}, l \in {NoneV, SomeV(1)} :
          PostHeartbeat(w, u, l)
    \/ BeatTick

InitApi ==
    /\ now = MaxNow - SleepRoom
    /\ workers = <<>>
    /\ InitTable(0, 0)
    /\ InitSelect
    /\ InitWorker

SpecApi == InitApi /\ [][NextApi]_vars

\* One worker's thread and requests that may fail.  The thread is running:
\* its next step is taken in the end, and so is the clock's.
BeatWorker == "w1"

NextBeat ==
    \/ ClientStart(BeatWorker)
    \/ \E o \in NetOutcomes : ClientRegister(BeatWorker, o)
    \/ \E o \in NetOutcomes : ClientHeartbeat(BeatWorker, o)
    \/ ClientWake(BeatWorker)
    \/ Restart
    \/ BeatTick

BeatStep ==
    \/ \E o \in NetOutcomes : ClientRegister(BeatWorker, o)
    \/ \E o \in NetOutcomes : ClientHeartbeat(BeatWorker, o)
    \/ ClientWake(BeatWorker)
    \/ BeatTick

SpecBeat == InitBeat /\ [][NextBeat]_vars /\ WF_vars(BeatStep)

\* The threads of both workers and a reachable orchestrator: every request
\* is delivered.
NextRestart ==
    \/ \E w \in WorkerIds : ClientStart(w)
    \/ \E w \in WorkerIds : ClientRegister(w, "delivered")
    \/ \E w \in WorkerIds : ClientHeartbeat(w, "delivered")
    \/ \E w \in WorkerIds : ClientWake(w)
    \/ Restart
    \/ BeatTick

SpecRestart == InitBeat /\ [][NextRestart]_vars

(***************************************************************************)
(* _get_fanout on its own: calls with small inputs and with inputs around  *)
(* every R_target / 2^j, up to twice R_target.                             *)
(***************************************************************************)
MaxSmallRows == 64

FanoutInputs ==
    (0..MaxSmallRows)
    \cup {R_target \div Pow2(j) + d : j \in 0..24, d \in {-1, 0, 1}}
    \cup {2 * R_target}

Fanout(n) ==
    /\ fanout_call' = SomeV([n |-> n, k |-> get_fanout(n)])
    /\ UNCHANGED <<regVars, diskVars, selVars, wrkVars, cliVars, callVars, conVars>>

NextFanout == \E n \in FanoutInputs : Fanout(n)

SpecFanout == InitApi /\ [][NextFanout]_vars

(***************************************************************************)
(* The registry under threads.  The handlers of the API are plain          *)
(* functions, which the server runs in the threads of a pool, and the      *)
(* dispatcher runs in the thread of its query; WorkerRegistry takes no     *)
(* lock, so a thread may be switched between any two reads or writes of    *)
(* self.workers.                                                           *)
(***************************************************************************)
HbFlight == {"seen", "url", "load"}

\* list_active, line 39 and the start of the comprehension of line 40: the
\* iterator over self.workers.values() notes the size of the dict.
ListStart ==
    /\ la.pc # "iter"
    /\ la' = [pc |-> "iter", n |-> Len(workers), i |-> 0, t |-> now, out |-> <<>>]
    /\ UNCHANGED <<regVars, diskVars, selVars, wrkVars, fanout_call, conVars, callVars, cpc, cwake, http_status,
                   reg_start, hb>>

\* Line 40, one turn of the comprehension: the iterator raises RuntimeError
\* (dictionary changed size during iteration) when the dict has grown since
\* the start, else it yields the next record or ends.
ListNext ==
    /\ la.pc = "iter"
    /\ la' = IF Len(workers) # la.n THEN [la EXCEPT !.pc = "error"]
             ELSE IF la.i < la.n
             THEN [la EXCEPT !.i = @ + 1,
                             !.out = IF IsLive(workers[la.i + 1], la.t)
                                     THEN Append(@, workers[la.i + 1]) ELSE @]
             ELSE [la EXCEPT !.pc = "done"]
    /\ UNCHANGED <<regVars, diskVars, selVars, wrkVars, fanout_call, conVars, callVars, cpc, cwake, http_status,
                   reg_start, hb>>

\* upsert, lines 19-24: one store into the dict.  A heartbeat in progress
\* for the same worker is left holding the record that was replaced.
ThreadUpsert(w) ==
    /\ workers' = upsert(workers, w, WorkerUrl(w), 0, now)
    /\ hb' = IF hb.pc \in HbFlight /\ hb.w = w THEN [hb EXCEPT !.stale = TRUE] ELSE hb
    /\ UNCHANGED <<now, diskVars, selVars, wrkVars, fanout_call, conVars, callVars, cpc, cwake, http_status,
                   reg_start, la>>

\* heartbeat, lines 29-31: the membership test and w = self.workers[id].
HbCheck(w, u, l) ==
    /\ hb.pc \notin HbFlight
    /\ IF IndexOfWorker(workers, w) = 0
       THEN /\ hb' = [pc |-> "done", w |-> w, u |-> u, l |-> l, stale |-> FALSE]
            /\ http_status' = 404
       ELSE /\ hb' = [pc |-> "seen", w |-> w, u |-> u, l |-> l, stale |-> FALSE]
            /\ UNCHANGED http_status
    /\ UNCHANGED <<regVars, diskVars, selVars, wrkVars, fanout_call, conVars, callVars, cpc, cwake, reg_start, la>>

\* The record the heartbeat holds, after a write to one of its fields: the
\* registry sees the write unless the record has been replaced.
HbWrite(field, v) ==
    IF hb.stale THEN workers
    ELSE [workers EXCEPT ![IndexOfWorker(workers, hb.w)][field] = v]

\* Line 32: w.last_seen = now.
HbSetSeen ==
    /\ hb.pc = "seen"
    /\ workers' = HbWrite("last_seen", now)
    /\ hb' = [hb EXCEPT !.pc = "url"]
    /\ UNCHANGED <<now, diskVars, selVars, wrkVars, fanout_call, conVars, callVars, cpc, cwake, http_status,
                   reg_start, la>>

\* Lines 33-34: if base_url: w.base_url = base_url.rstrip("/").
HbSetUrl ==
    /\ hb.pc = "url"
    /\ workers' = IF hb.u # NoneV /\ TheV(hb.u) # <<>>
                  THEN HbWrite("base_url", RStripSlash(TheV(hb.u))) ELSE workers
    /\ hb' = [hb EXCEPT !.pc = "load"]
    /\ UNCHANGED <<now, diskVars, selVars, wrkVars, fanout_call, conVars, callVars, cpc, cwake, http_status,
                   reg_start, la>>

\* Lines 35-36: if load is not None: w.load = float(load); the handler
\* answers 200.
HbSetLoad ==
    /\ hb.pc = "load"
    /\ workers' = IF hb.l # NoneV THEN HbWrite("load", TheV(hb.l)) ELSE workers
    /\ hb' = [hb EXCEPT !.pc = "done"]
    /\ http_status' = 200
    /\ UNCHANGED <<now, diskVars, selVars, wrkVars, fanout_call, conVars, callVars, cpc, cwake, reg_start, la>>

NextThreads ==
    \/ \E w \in WorkerIds : ThreadUpsert(w)
    \/ \E w \in WorkerIds : \E u \in {NoneV, SomeV(OtherUrl(w))}, l \in {NoneV, SomeV(1)} :
          HbCheck(w, u, l)
    \/ HbSetSeen
    \/ HbSetUrl
    \/ HbSetLoad
    \/ ListStart
    \/ ListNext

SpecThreads == InitApi /\ [][NextThreads]_vars

\* The plan of every query run to its end by a worker that stays live,
\* with the clock standing still.
InitPlan ==
    /\ now = 0
    /\ workers = upsert(<<>>, "w1", WorkerUrl("w1"), 0, 0)
    /\ \E n \in ShardCounts, o \in DataOffsets : InitTable(n, o)
    /\ InitSelect
    /\ InitWorker

NextPlan ==
    \/ \E q \in Queries : SelectStart(q)
    \/ WaitListActive
    \/ WaitChoose
    \/ SendTask
    \/ \E o \in RpcOutcomes : RpcReturn(o)
    \/ SelectFinish

SpecPlan == InitPlan /\ [][NextPlan]_vars

\* The worker alone on a database directory that is new or not there yet,
\* creating and dropping tables one request at a time; the process may be
\* killed at any step.
InitStore ==
    /\ now = 0
    /\ workers = <<>>
    /\ files = <<>>
    /\ dirs \in {{}, {DbDir}}
    /\ json_files = <<>>
    /\ InitSelect
    /\ InitWorker

OpenCreate ==
    \E t \in Tables, if_not_exists \in BOOLEAN, exist_ok \in BOOLEAN :
        OpenConn(CreateRequest(t, if_not_exists), exist_ok)

OpenDrop ==
    \E t \in Tables, e \in {NoneV, SomeV(TRUE)}, exist_ok \in BOOLEAN :
        OpenConn(DropRequest(t, e), exist_ok)

OpenInsert ==
    \E t \in Tables, i \in DOMAIN Sources, r \in RowsPerShard,
       exist_ok \in BOOLEAN :
        LET req == InsertRequest(t, Sources[i], r)
        IN  CanTake(req) /\ OpenConn(req, exist_ok)

NextStore ==
    \/ OpenCreate
    \/ OpenDrop
    \/ AtomicMkdir
    \/ AtomicOpenTmp
    \/ AtomicWriteTmp
    \/ AtomicReplace
    \/ Create
    \/ CreateSaveCatalog
    \/ Drop
    \/ DropRmdir
    \/ WorkerReturn
    \/ Crash

SpecStore == InitStore /\ [][NextStore]_vars

\* The worker never killed, with the inserts.
NextWorker ==
    \/ OpenCreate
    \/ OpenDrop
    \/ OpenInsert
    \/ AtomicMkdir
    \/ AtomicOpenTmp
    \/ AtomicWriteTmp
    \/ AtomicReplace
    \/ Create
    \/ CreateSaveCatalog
    \/ Drop
    \/ DropRmdir
    \/ Insert
    \/ InsertWrite
    \/ InsertRename
    \/ InsertSave
    \/ WorkerReturn

SpecWorker == InitStore /\ [][NextWorker]_vars

(***************************************************************************)
(* The SELECT of a query run on the whole table, for comparison with what  *)
(* its plan leaves.                                                        *)
(***************************************************************************)
\* The name of a select item's column in the final output.
OutName(s) ==
    IF IsCol(s) THEN s.name
    ELSE AliasOr(s.alias, s.func \o "_" \o Str(SafeIdent(s.col)))

DirectSelect(q) ==
    [i \in DOMAIN q.select |->
        LET s == q.select[i]
        IN  [e  |-> IF IsCol(s) THEN ColE(s.name) ELSE AggE(s.func, Str(s.col)),
             as |-> OutName(s)]]

\* The rows of all shards the manifest lists, in order.
TableRows(t) ==
    LET shards == TheV(ReadJson(ManifestPath(t))).shards
    IN  Flatten([i \in DOMAIN shards |-> files[PathOf(t, Str(shards[i]))].rows])

DirectRows(q) ==
    SelectRows(DirectSelect(q), TableRows(q.table),
               IF q.where = NoneV THEN <<>>
               ELSE [i \in DOMAIN TheV(q.where) |-> unparse_where_clause(TheV(q.where)[i])],
               IF q.group_by = NoneV THEN <<>> ELSE TheV(q.group_by))

BagOfRows(rows) ==
    [r \in Range(rows) |-> Cardinality({i \in DOMAIN rows : rows[i] = r})]

\* The file holds, under the names of the select list, the rows of the
\* direct SELECT (row order ignored).
SameRows(file, q) ==
    LET names == {OutName(q.select[i]) : i \in DOMAIN q.select}
    IN  /\ names \subseteq Range(file.cols)
        /\ BagOfRows([i \in DOMAIN file.rows |-> [c \in names |-> file.rows[i][c]]])
             = BagOfRows(DirectRows(q))

FinalStmt == plan_levels[Len(plan_levels)][1]

\* C1: once the dispatcher has run every statement below the final one, the
\* final statement runs on what they left and writes the rows of the same
\* SELECT over all shards, and that is what out.parquet holds at the end,
\* whatever the shard count and whether or not reduction levels ran.
C1_PlanOutputIsDirectSelect ==
    /\ (dpc = "rpc" /\ level_i = Len(plan_levels)) =>
           /\ StmtRuns(FinalStmt, files)
           /\ SameRows(StmtOutput(FinalStmt, files), TheV(query))
    /\ dpc = "finish" => SameRows(files[OutPath], TheV(query))

\* The same for the plans without a reduction level.
C1_TwoLevelPlanOutputIsDirectSelect ==
    (query # NoneV /\ Len(plan_levels) = 2) => C1_PlanOutputIsDirectSelect

\* A three-level plan stands before its final statement.
C1_ReductionRan ==
    dpc = "rpc" /\ Len(plan_levels) = 3 /\ level_i = 3

(***************************************************************************)
(* The dispatcher's sequencing.                                            *)
(***************************************************************************)
\* The positions <<level, index>> of the plan, in plan order.
PlanOrder ==
    Flatten([l \in DOMAIN plan_levels |->
                [i \in DOMAIN plan_levels[l] |-> <<l, i>>]])

\* C2: the statements sent so far are the first statements of the plan, in
\* plan order, and each of them but the last one sent has had its RPC
\* return ok: a statement leaves only after every statement before it, and
\* so every statement of the levels below it, has returned ok.
C2_SentInPlanOrderAfterOk ==
    /\ Len(sent) <= Len(PlanOrder)
    /\ sent = SubSeq(PlanOrder, 1, Len(sent))
    /\ Len(executions) >= Len(sent) - 1
    /\ \A k \in 1..(Len(sent) - 1) : executions[k].ok

\* The final statement of a three-statement plan is in flight after both
\* statements of the level below returned.
C2_FinalLevelSent ==
    /\ dpc = "rpc"
    /\ sent = <<(<<1, 1>>), (<<1, 2>>), (<<2, 1>>)>>

WorkerIdsOf(ws) == {ws[i].worker_id : i \in DOMAIN ws}

\* The record of worker w has just been written by upsert or heartbeat.
Refreshed(w) ==
    /\ w \in WorkerIdsOf(workers')
    /\ \/ w \notin WorkerIdsOf(workers)
       \/ workers'[IndexOfWorker(workers', w)] # workers[IndexOfWorker(workers, w)]

\* C3: a registered worker is listed by list_active() exactly while now -
\* last_seen <= TTL; it is listed right after an upsert or heartbeat for it;
\* and no step, expiry included, removes a record from the map.
C3_ListedExactlyWithinTTL ==
    /\ [](\A i \in DOMAIN workers :
             InSeq(workers[i], list_active(workers, now))
                 <=> (now - workers[i].last_seen <= ttl_seconds * TicksPerSecond))
    /\ [][/\ WorkerIdsOf(workers) \subseteq WorkerIdsOf(workers')
          /\ \A w \in WorkerIds :
                Refreshed(w) =>
                    w \in WorkerIdsOf(list_active(workers', now'))]_vars

\* One worker is listed exactly TTL after it was last seen while the record
\* of another, last seen longer ago, is still in the map and not listed.
C3_OneAtTTLOneExpired ==
    \E i, j \in DOMAIN workers :
        /\ now - workers[i].last_seen = ttl_seconds * TicksPerSecond
        /\ InSeq(workers[i], list_active(workers, now))
        /\ now - workers[j].last_seen > ttl_seconds * TicksPerSecond
        /\ ~InSeq(workers[j], list_active(workers, now))

\* C4: what the worker-wait has returned to the dispatcher is a worker, and
\* one that is live at the moment of the return.
C4_WaitReturnsLiveWorker ==
    [][(dpc = "choose" /\ dpc' = "send") =>
           /\ worker' # NoneV
           /\ now' - TheV(worker').last_seen <= ttl_seconds * TicksPerSecond]_vars

(***************************************************************************)
(* The catalog, the manifests and the shards on disk.                      *)
(***************************************************************************)
FinalPaths == {CatalogPath} \cup {ManifestPath(t) : t \in Tables}

HasManifest(t) == t \in dirs /\ ManifestPath(t) \in DOMAIN json_files

\* The tables catalog.json names, none when the file is absent.
CatalogTables ==
    IF CatalogPath \in DOMAIN json_files /\ json_files[CatalogPath] # Partial
    THEN json_files[CatalogPath].tables ELSE <<>>

\* C5: with the worker at rest after requests run one at a time to their
\* end, every table catalog.json names has a directory whose manifest.json
\* carries the table_id of the catalog entry, and every directory holding a
\* manifest.json is named in catalog.json.
C5_CatalogMatchesManifests ==
    wpc = "idle" =>
        /\ \A t \in DOMAIN CatalogTables :
              /\ HasManifest(t)
              /\ json_files[ManifestPath(t)] # Partial
              /\ json_files[ManifestPath(t)].table_id = CatalogTables[t]
        /\ \A t \in Tables : HasManifest(t) => t \in DOMAIN CatalogTables

\* A table created, dropped and created again stands in the catalog next to
\* no other.
C5_RecreatedTable ==
    /\ wpc = "idle"
    /\ wresult = SomeV([ok |-> TRUE, msg |-> "Successfully"])
    /\ \E t \in Tables : DOMAIN CatalogTables = {t} /\ CatalogTables[t] > 1
    /\ \E t \in Tables : t \notin dirs

\* C6: in every state of the files, a crash's included, every table that
\* catalog.json names has a directory holding a manifest.json.
C6_CatalogTablesHaveManifest ==
    \A t \in DOMAIN CatalogTables : HasManifest(t)

\* The same of the steps of CREATE alone: no step of a CREATE, and no crash
\* in one, breaks it.
C6_CreateKeepsCatalogTablesWithManifest ==
    [][(/\ wreq # NoneV
        /\ TheV(wreq).kind = "create"
        /\ C6_CatalogTablesHaveManifest) => C6_CatalogTablesHaveManifest']_vars

\* C9: a final path never holds a partial document; while an atomic write
\* is under way, and when the process is killed in it, the final path keeps
\* what it held; the rename alone changes it, to the complete new document.
\* (Besides that, a manifest.json goes away with its directory in a DROP.)
C9_FinalPathOldOrNew ==
    /\ [](\A p \in FinalPaths \cap DOMAIN json_files : json_files[p] # Partial)
    /\ [][\A p \in FinalPaths :
            \/ ReadJson(p)' = ReadJson(p)
            \/ /\ wpc = "aw_replace" /\ wpc' = TheV(waw).ret
               /\ TheV(waw).path = p
               /\ ReadJson(p)' = SomeV(TheV(waw).text)
            \/ /\ wpc = "drop"
               /\ p = ManifestPath(TheV(wreq).table)
               /\ ReadJson(p)' = NoneV]_vars

\* The process was killed while catalog.json.tmp was being written:
\* the temporary file is partial and catalog.json still names its table.
C9_KilledInWrite ==
    /\ wpc = "idle"
    /\ ReadJson(TmpPath(CatalogPath)) = SomeV(Partial)
    /\ DOMAIN CatalogTables # {}

(***************************************************************************)
(* The inserts.                                                            *)
(***************************************************************************)
\* The shard list of a table's manifest.json among the JSON files js.
ShardsIn(js, t) ==
    IF ManifestPath(t) \in DOMAIN js /\ js[ManifestPath(t)] # Partial
    THEN js[ManifestPath(t)].shards ELSE <<>>

\* The files of the table's directory among the files fs.
FilesIn(fs, t) == FnRestrict(fs, {p \in DOMAIN fs : p.dir = t})

\* What holds between the files before and after an INSERT into table t,
\* but for the growth of the shard set: no name is listed twice, the shards
\* listed before are listed as before with the new ones after them, and
\* their files are as they were.
InsertKeepsShards(t) ==
    LET old == ShardsIn(TheV(before).json_files, t)
        new == ShardsIn(json_files, t)
    IN  /\ \A i, j \in DOMAIN new : new[i] = new[j] => i = j
        /\ Len(old) <= Len(new)
        /\ SubSeq(new, 1, Len(old)) = old
        /\ \A k \in DOMAIN old :
              LET p == PathOf(t, Str(old[k]))
              IN  /\ p \in DOMAIN files
                  /\ p \in DOMAIN TheV(before).files
                  /\ files[p] = TheV(before).files[p]

InsertReturns == wpc = "return" /\ TheV(wreq).kind = "insert"

\* C7 as stated: when an INSERT returns, the shard set of the manifest is
\* strictly larger than before it, no name is listed twice or taken again,
\* and the files of the shards listed before are untouched.
C7_EveryInsertGrowsShards ==
    InsertReturns =>
        /\ InsertKeepsShards(TheV(wreq).table)
        /\ Len(ShardsIn(json_files, TheV(wreq).table))
             > Len(ShardsIn(TheV(before).json_files, TheV(wreq).table))

\* C7, amended: the same, the shard set growing strictly when the source
\* has at least one row and staying as it was when it has none.
C7_InsertOfRowsGrowsShards ==
    InsertReturns =>
        /\ InsertKeepsShards(TheV(wreq).table)
        /\ IF TheV(wreq).src.rows # <<>>
           THEN Len(ShardsIn(json_files, TheV(wreq).table))
                  > Len(ShardsIn(TheV(before).json_files, TheV(wreq).table))
           ELSE ShardsIn(json_files, TheV(wreq).table)
                  = ShardsIn(TheV(before).json_files, TheV(wreq).table)

\* An INSERT of two rows, one row a shard, returns on a table that had a
\* shard already.
C7_SecondInsertReturns ==
    /\ InsertReturns
    /\ Len(ShardsIn(TheV(before).json_files, TheV(wreq).table)) >= 1
    /\ Len(ShardsIn(json_files, TheV(wreq).table))
         >= Len(ShardsIn(TheV(before).json_files, TheV(wreq).table)) + 2

\* The data of the source fail the validation against the schema: a column
\* of the schema is missing, a column is not in the schema, a NOT NULL
\* column holds a null, or a column cannot be safely cast to its type.
FailsValidation(src, schema) ==
    \/ \E k \in DOMAIN schema : ~InSeq(schema[k].name, src.cols)
    \/ \E k \in DOMAIN src.cols : \A j \in DOMAIN schema : schema[j].name # src.cols[k]
    \/ /\ \A k \in DOMAIN schema : InSeq(schema[k].name, src.cols)
       /\ \E k \in DOMAIN schema :
             \/ /\ ~schema[k].nullable
                /\ \E i \in DOMAIN src.rows : src.rows[i][schema[k].name] = Null
             \/ ~CastIsSafe(TypeOf(src, schema[k].name),
                            DuckdbToArrow(schema[k].type),
                            ColumnOf(src, schema[k].name))

\* The request in hand is an INSERT, into a table with a manifest, of a
\* readable source whose data fail the validation.
InvalidInsertInHand ==
    /\ wreq # NoneV
    /\ TheV(wreq).kind = "insert"
    /\ TheV(wreq).src.suffix \in {".csv", ".parquet", ".pq"}
    /\ TheV(wreq).table \in dirs
    /\ ManifestPath(TheV(wreq).table) \in DOMAIN json_files
    /\ FailsValidation(TheV(wreq).src, json_files[ManifestPath(TheV(wreq).table)].schema)

\* C8: no step of an INSERT whose data fail the validation changes the
\* shard list of the manifest or the files of the table directory, and the
\* request ends with an error.
C8_InvalidInsertChangesNothing ==
    [][InvalidInsertInHand =>
          /\ ShardsIn(json_files', TheV(wreq).table)
               = ShardsIn(TheV(before).json_files, TheV(wreq).table)
          /\ FilesIn(files', TheV(wreq).table)
               = FilesIn(TheV(before).files, TheV(wreq).table)
          /\ wpc' \in {"idle", "insert"} \cup AwPcs
          /\ wpc' = "idle" => /\ wresult' # NoneV
                              /\ ~TheV(wresult').ok]_vars

\* An INSERT with a null in a NOT NULL column was refused on a table that
\* holds shards.
C8_NullRefused ==
    /\ wpc = "idle"
    /\ wresult = SomeV([ok |-> FALSE, msg |-> "is NOT NULL but has nulls"])
    /\ \E t \in Tables : ShardsIn(json_files, t) # <<>>

(***************************************************************************)
(* The end of a SELECT.                                                    *)
(***************************************************************************)
AnsweredOk == response # NoneV /\ TheV(response).ok

\* C11: the answer is ok = true only when every statement of the plan has
\* been sent and has returned ok, and the temporary directory is gone then
\* and only then: from the start of the query it stays in place until the
\* ok answer, and so after a failed or timed-out query.
C11_OkAfterAllAndTmpDeletedOnlyThen ==
    /\ AnsweredOk =>
          /\ sent = PlanOrder
          /\ Len(executions) = Len(sent)
          /\ \A k \in DOMAIN executions : executions[k].ok
    /\ query # NoneV => ((TmpDir \notin dirs) <=> AnsweredOk)

\* A query has been answered ok: its plan has run to the end and the
\* temporary directory has been removed.
C11_AnsweredOkTmpGone ==
    /\ dpc = "done"
    /\ AnsweredOk
    /\ Len(executions) > 1
    /\ TmpDir \notin dirs

(***************************************************************************)
(* The wait for a worker.                                                  *)
(***************************************************************************)
TimeoutAnswer ==
    [ok |-> FALSE, kind |-> "select",
     error |-> [msg |-> "No active workers became available before timeout",
                executions |-> executions]]

Deadline == wait_start + wait_timeout_s * TicksPerSecond

\* C12: with no worker live from the start of the wait onward the dispatcher
\* sends nothing (the first statement goes to a worker that was live at or
\* after the start of the wait), a wait given up ends in the answer ok =
\* false with the timeout error, more than 60 s after the start, never in
\* an exception, and the wait does not last forever: it ends in an answer
\* unless a worker is live.
C12_NoWorkerEndsInTimeoutAnswer ==
    /\ [][sent = <<>> /\ sent' # <<>> =>
            /\ worker # NoneV
            /\ TheV(worker).last_seen + ttl >= wait_start]_vars
    /\ [][dpc = "sleep" /\ dpc' # "wait" /\ dpc' # "sleep" =>
            /\ dpc' = "done"
            /\ response' = SomeV(TimeoutAnswer)
            /\ now' > Deadline]_vars
    /\ (dpc \in {"wait", "sleep"} /\ sent = <<>>)
          ~> (dpc = "done" \/ list_active(workers, now) # <<>>)

\* A query has been answered with the timeout error, no statement sent, the
\* registry holding a worker that has not been live since the query started.
C12_TimedOutUnserved ==
    /\ dpc = "done"
    /\ response = SomeV(TimeoutAnswer)
    /\ sent = <<>>
    /\ workers = StaleWorker
    /\ now > Deadline

\* C13: a query is not answered with the timeout error when a worker was
\* registered before the 60 s were over and has been live ever since.
C13_RegisteredBeforeDeadlineIsServed ==
    (dpc = "done" /\ response = SomeV(TimeoutAnswer) /\ sent = <<>>) =>
        ~ \E i \in DOMAIN workers :
              /\ workers[i].last_seen >= wait_start
              /\ workers[i].last_seen < Deadline
              /\ IsLive(workers[i], now)

(***************************************************************************)
(* The registry API and the worker's registration thread.                  *)
(***************************************************************************)
Known(w) == w \in WorkerIdsOf(workers)

\* The records of workers and workers' agree but for the fields last_seen,
\* base_url and load of worker w, which are as given.
OnlyChanged(w, base_url, load) ==
    /\ Len(workers') = Len(workers)
    /\ \A i \in DOMAIN workers :
          IF workers[i].worker_id = w
          THEN workers'[i] = [worker_id |-> w, base_url |-> base_url,
                              last_seen |-> now, load |-> load]
          ELSE workers'[i] = workers[i]

\* C14: a heartbeat for an id the registry does not hold is answered 404
\* and leaves the registry as it was; a heartbeat for a known id sets its
\* last_seen to now, sets base_url and load to what the request supplies
\* and leaves the one not supplied, and every other record, as it was.
C14_HeartbeatUnknown404KnownRefreshed ==
    [][\A w \in WorkerIds : \A u \in {NoneV, SomeV(OtherUrl(w))}, l \in {NoneV, SomeV(1)} :
          PostHeartbeat(w, u, l) =>
             IF ~Known(w)
             THEN http_status' = 404 /\ workers' = workers
             ELSE /\ http_status' = 200
                  /\ \E i \in DOMAIN workers :
                        /\ workers[i].worker_id = w
                        /\ OnlyChanged(w,
                              IF u = NoneV THEN workers[i].base_url
                              ELSE RStripSlash(TheV(u)),
                              IF l = NoneV THEN workers[i].load ELSE TheV(l))]_vars

\* A heartbeat has been refused with 404 while the registry holds another
\* worker, whose base_url came with a heartbeat that supplied no load.
C14_RefusedBesideRefreshed ==
    /\ http_status = 404
    /\ \E i \in DOMAIN workers :
          /\ workers[i].base_url = RStripSlash(OtherUrl(workers[i].worker_id))
          /\ workers[i].load = 0
          /\ workers[i].last_seen > MaxNow - SleepRoom

\* The clock's horizon cuts the sleep of worker w short of its end.
Horizon(w) == cpc[w] \in Sleeping /\ cwake[w] > MaxNow

\* C15: a heartbeat answered 404 takes the thread into the registration
\* loop; the loop is left only by a register request answered below 400,
\* which has put the worker into the registry, and every delivered register
\* request is so answered; a request lost or answered with another error
\* status takes the thread to a sleep from which it tries again; and a
\* running worker that is not registered gets registered in the end (or is
\* still trying when the clock's horizon is reached).
C15_404ReentersRegistrationUntilRegistered ==
    /\ [][\A o \in NetOutcomes :
            ClientHeartbeat(BeatWorker, o) /\ http_status' = 404 =>
               cpc'[BeatWorker] = "reregister"]_vars
    /\ [][cpc[BeatWorker] \in RegLoop /\ cpc'[BeatWorker] \notin RegLoop =>
            /\ http_status' \in 1..399
            /\ BeatWorker \in WorkerIdsOf(workers')
            /\ cpc'[BeatWorker] \in {"heartbeat", "hb_sleep"}]_vars
    /\ [][ClientRegister(BeatWorker, "delivered") =>
            BeatWorker \in WorkerIdsOf(workers') /\ cpc'[BeatWorker] \notin RegLoop]_vars
    /\ [][(\E o \in NetOutcomes : ClientRegister(BeatWorker, o) \/ ClientHeartbeat(BeatWorker, o))
            /\ http_status' \in {0, 500} =>
               /\ cpc'[BeatWorker] \in Sleeping
               /\ cwake'[BeatWorker] <= now + hb_ticks]_vars
    /\ (cpc[BeatWorker] # "off" /\ ~Known(BeatWorker))
          ~> (Known(BeatWorker) \/ Horizon(BeatWorker))

\* The registry has been restarted and the worker, registered again after
\* an attempt that failed, is back in the sleep of its heartbeat loop.
C15_RegisteredAgain ==
    /\ reg_start > MaxNow - BeatRoom
    /\ cpc[BeatWorker] = "hb_sleep"
    /\ cwake[BeatWorker] = now + hb_ticks
    /\ Known(BeatWorker)
    /\ http_status = 200
    /\ now - reg_start >= retry_ticks

Listed(w) ==
    \E i \in DOMAIN workers : workers[i].worker_id = w /\ IsLive(workers[i], now)

Exclusive ==
    /\ la.pc = "iter" => workers' = workers /\ hb'.pc = hb.pc
    /\ hb.pc \in HbFlight =>
          /\ la' = la
          /\ hb'.pc = hb.pc => workers' = workers

\* C17: upsert, heartbeat and list_active exclude one another: the map does
\* not change while list_active iterates it (and so the iteration never
\* fails), and nothing comes between a heartbeat's membership test and the
\* last of its writes to the record.
C17_RegistryOperationsExclusive ==
    /\ [](la.pc # "error")
    /\ [][Exclusive]_vars

(***************************************************************************)
(* The fanout and the shape of the plan.                                   *)
(***************************************************************************)
PowersOfTwo == {2, 4, 8, 16, 32, 64, 128, 256}

\* C19: the fanout returned for a non-negative number is a power of two
\* between k_min = 2 and k_max = 256.
C19_FanoutIsClampedPowerOfTwo ==
    fanout_call # NoneV =>
        /\ TheV(fanout_call).k \in PowersOfTwo
        /\ k_min <= TheV(fanout_call).k
        /\ TheV(fanout_call).k <= k_max

\* The fanout has been asked for R_target rows or more, where the ratio is
\* at most 1 and the floor k_min applies.
C19_FloorApplied ==
    /\ fanout_call # NoneV
    /\ TheV(fanout_call).n >= R_target
    /\ TheV(fanout_call).k = k_min

\* The plan has just been made.
Planned == plan_levels # <<>> /\ sent = <<>> /\ dpc = "wait"

LevelOuts(l) == {plan_levels[l][i].out : i \in DOMAIN plan_levels[l]}

LevelReads(l) == UNION {Range(plan_levels[l][i].from) : i \in DOMAIN plan_levels[l]}

\* C18: in every level of the plan the statements write files that differ
\* from one another, and none of these files is read by a statement of the
\* level.
C18_LevelStatementsIndependent ==
    Planned =>
        \A l \in DOMAIN plan_levels :
            /\ Cardinality(LevelOuts(l)) = Len(plan_levels[l])
            /\ LevelOuts(l) \cap LevelReads(l) = {}

\* The two statements of a reduction level have both run.
C18_ReductionLevelRan ==
    /\ Len(plan_levels) = 3
    /\ Len(plan_levels[2]) = 2
    /\ level_i = 3
    /\ \A k \in DOMAIN executions : executions[k].ok

PlanShards == TheV(ReadJson(ManifestPath(TheV(query).table))).shards

OutsOf(stmts) == [i \in DOMAIN stmts |-> stmts[i].out]

CeilDiv(m, k) == (m + k - 1) \div k

\* C20: for n shards and the fanout k picked for n, the first level has n
\* map statements, the i-th reading the i-th shard of the manifest; every
\* level between the first and the last follows a level of m > k statements
\* and has ceil(m / k) statements, the j-th reading the outputs of the j-th
\* run of k statements of that level (the last run may be shorter); the
\* last level is one statement that writes out_path and reads the outputs
\* of the level before it, at most k; and with n <= k there are two levels.
C20_PlanShape ==
    Planned =>
        LET n == Len(PlanShards)
            k == get_fanout(n)
            L == Len(plan_levels)
        IN  /\ L >= 2
            /\ Len(plan_levels[1]) = n
            /\ \A i \in 1..n :
                  plan_levels[1][i].from =
                     <<PathOf(TheV(query).table, Str(PlanShards[i]))>>
            /\ \A l \in 2..(L - 1) :
                  LET prev == OutsOf(plan_levels[l - 1])
                      m == Len(prev)
                  IN  /\ m > k
                      /\ Len(plan_levels[l]) = CeilDiv(m, k)
                      /\ \A j \in DOMAIN plan_levels[l] :
                            plan_levels[l][j].from =
                               SubSeq(prev, (j - 1) * k + 1, Min2(j * k, m))
            /\ Len(plan_levels[L]) = 1
            /\ plan_levels[L][1].out = OutPath
            /\ plan_levels[L][1].from = OutsOf(plan_levels[L - 1])
            /\ Len(plan_levels[L][1].from) <= k
            /\ n <= k => L = 2

\* A plan of three levels has just been made: 257 map statements, two
\* reduction statements over 256 and 1 of their outputs, the final one.
C20_ThreeLevelPlan ==
    /\ Planned
    /\ Len(plan_levels) = 3
    /\ Len(plan_levels[1]) = 257
    /\ Len(plan_levels[2][1].from) = 256
    /\ Len(plan_levels[2][2].from) = 1
    /\ Len(plan_levels[3][1].from) = 2


(***************************************************************************)
(* CREATE of a table the catalog already has.                              *)
(***************************************************************************)
\* worker_create is about to run on a table that the loaded catalog names.
CreateOfKnownInHand ==
    /\ wpc = "create"
    /\ TheV(wreq).table \in DOMAIN wcat

AlreadyCreated == SomeV([ok |-> TRUE, msg |-> "already created"])

C22_CreateOfKnownTableHonoursIfNotExists ==
    [][CreateOfKnownInHand =>
          /\ wresult' # NoneV
          /\ TheV(wresult').ok = TheV(wreq).if_not_exists
          /\ diskVars' = diskVars]_vars


(***************************************************************************)
(* The parser.  A statement is the sequence of its words, "(", ")" and ","  *)
(* words of their own (preprocess_query puts blanks around them before     *)
(* split()).  An exception that leaves a function is the record            *)
(* Raised(name); Python's None is PyNone.                                  *)
(***************************************************************************)
Raised(e) == [raised |-> e]

IsRaised(r) == DOMAIN r = {"raised"}

PyNone == [none |-> TRUE]

\* s[lo:hi] for 0 <= lo, and s[lo:-1] written PySlice(s, lo, Len(s) - 1).
PySlice(s, lo, hi) ==
    LET h == IF hi > Len(s) THEN Len(s) ELSE hi
    IN  IF lo >= h THEN <<>> ELSE SubSeq(s, lo + 1, h)

\* s.index(x), counted from 0; -1 where Python raises ValueError.
PyIndex(s, x) ==
    IF \E k \in DOMAIN s : s[k] = x
    THEN (CHOOSE k \in DOMAIN s : s[k] = x /\ \A j \in 1..(k - 1) : s[j] # x) - 1
    ELSE -1

\* The words the statements use in capitals, and their lower case.
LowerOf ==
    [w \in {"SELECT", "FROM", "WHERE", "GROUP", "BY", "AND", "IS", "NOT", "NULL",
            "COUNT", "AVG", "AS", "CREATE", "TABLE", "DROP", "INSERT", "INTO",
            "IF", "EXISTS", "INT", "VARCHAR"} |->
        CASE w = "SELECT" -> "select" [] w = "FROM" -> "from"
          [] w = "WHERE" -> "where"   [] w = "GROUP" -> "group"
          [] w = "BY" -> "by"         [] w = "AND" -> "and"
          [] w = "IS" -> "is"         [] w = "NOT" -> "not"
          [] w = "NULL" -> "null"     [] w = "COUNT" -> "count"
          [] w = "AVG" -> "avg"       [] w = "AS" -> "as"
          [] w = "CREATE" -> "create" [] w = "TABLE" -> "table"
          [] w = "DROP" -> "drop"     [] w = "INSERT" -> "insert"
          [] w = "INTO" -> "into"     [] w = "IF" -> "if"
          [] w = "EXISTS" -> "exists" [] w = "INT" -> "int"
          [] w = "VARCHAR" -> "varchar"]

\* lower_outside_quotes: a quoted literal is not in LowerOf and stays.
lower_outside_quotes(words) ==
    [k \in DOMAIN words |->
        IF words[k] \in DOMAIN LowerOf THEN LowerOf[words[k]] ELSE words[k]]

\* str.replace of a run of words by one word, from the left.
RECURSIVE Glue(_, _, _)
Glue(words, run, one) ==
    IF Len(words) < Len(run) THEN words
    ELSE IF SubSeq(words, 1, Len(run)) = run
    THEN <<one>> \o Glue(SubSeq(words, Len(run) + 1, Len(words)), run, one)
    ELSE <<Head(words)>> \o Glue(Tail(words), run, one)

\* preprocess_query and split(): the keywords of several words become one
\* token each, in the order of the replace calls.
preprocess_query(words) ==
    LET w0 == lower_outside_quotes(words)
        w1 == Glue(w0, <<"group", "by">>, "group_by")
        w2 == Glue(w1, <<"is", "null">>, "is_null")
        w3 == Glue(w2, <<"is", "not", "null">>, "is_not_null")
        w4 == Glue(w3, <<"if", "not", "exists">>, "if_not_exists")
        w5 == Glue(w4, <<"if", "exists">>, "if_exists")
    IN  Glue(w5, <<"rows", "per", "shard">>, "rows_per_shard")

\* The loop of parse_create, parse_select_cols and parse_where: the tokens
\* between separators; the last token closes a group and belongs to it even
\* when it is a separator.
RECURSIVE SplitLoop(_, _, _, _)
SplitLoop(toks, sep, count, col) ==
    IF count > Len(toks) THEN <<>>
    ELSE LET tok == toks[count]
             last == count = Len(toks)
             col1 == IF last THEN Append(col, tok) ELSE col
         IN  IF tok = sep \/ last
             THEN <<col1>> \o SplitLoop(toks, sep, count + 1, <<>>)
             ELSE SplitLoop(toks, sep, count + 1, Append(col1, tok))

AggFuncStr == {"count", "sum", "min", "max", "avg"}

CmpStr == {"=", "!=", "<", "<=", ">", ">="}

NullCondStr == {"is_null", "is_not_null"}

ColumnRef(name, alias) == [t |-> "col", name |-> name, alias |-> alias]

AggExpr(func, col, alias) == [t |-> "agg", func |-> func, col |-> col, alias |-> alias]

PredicateTerm(col, op, value) == [col |-> col, op |-> op, value |-> value]

SelectQuery(table, select, where, group_by) ==
    [kind |-> "select", table |-> table, select |-> select, where |-> where,
     group_by |-> group_by]

CreateQuery(table, schema, if_not_exists) ==
    [kind |-> "create", table |-> table, schema |-> schema,
     if_not_exists |-> if_not_exists]

InsertQuery(table, src_path, rows_per_shard) ==
    [kind |-> "insert", table |-> table, src_path |-> src_path,
     rows_per_shard |-> rows_per_shard]

DropQuery(table, if_exists) == [kind |-> "drop", table |-> table, if_exists |-> if_exists]

\* The literals of the statements, as Python values.
IntV(n) == [int |-> n]

FloatV(whole, frac) == [whole |-> whole, frac |-> frac]

StrV(str) == [str |-> str]

MaxLiteral == 20

QuotedBodies == {"a", "2025-01-01"}

\* val.isdigit() and int(val), for the numerals up to MaxLiteral.
IsDigit(val) == \E n \in 0..MaxLiteral : ToString(n) = val

PyInt(val) == CHOOSE n \in 0..MaxLiteral : ToString(n) = val

\* num_cast: int, float or quoted string, or ValueError.
num_cast(val) ==
    IF IsDigit(val) THEN IntV(PyInt(val))
    ELSE IF \E a, b \in 0..9 : ToString(a) \o "." \o ToString(b) = val
    THEN LET ab == CHOOSE ab \in (0..9) \X (0..9) :
                      ToString(ab[1]) \o "." \o ToString(ab[2]) = val
         IN  FloatV(ab[1], ab[2])
    ELSE IF \E b \in QuotedBodies : "'" \o b \o "'" = val
    THEN StrV(CHOOSE b \in QuotedBodies : "'" \o b \o "'" = val)
    ELSE Raised("ValueError")

\* parse_drop.
parse_drop(toks) ==
    IF toks = <<>> THEN Raised("IndexError")
    ELSE IF toks[1] # "table" THEN Raised("AssertionError")
    ELSE IF Len(toks) = 2 THEN DropQuery(toks[2], FALSE)
    ELSE IF Len(toks) = 3
    THEN IF toks[3] # "if_exists" THEN Raised("AssertionError")
         ELSE DropQuery(toks[2], TRUE)
    ELSE Raised("TypeError")

\* parse_insert: whatever fails inside is raised again as a TypeError.
parse_insert(toks) ==
    IF Len(toks) < 4 THEN Raised("TypeError")
    ELSE IF toks[1] # "into" \/ toks[3] # "from" THEN Raised("TypeError")
    ELSE IF Len(toks) = 4 THEN InsertQuery(toks[2], toks[4], NoneV)
    ELSE IF Len(toks) = 6
    THEN IF toks[5] # "rows_per_shard" THEN Raised("TypeError")
         ELSE IF ~IsDigit(toks[6]) THEN Raised("TypeError")
         ELSE InsertQuery(toks[2], toks[4], SomeV(PyInt(toks[6])))
    ELSE Raised("TypeError")

\* parse_create_col.
parse_create_col(toks) ==
    IF Len(toks) = 2 THEN ColumnInfo(toks[1], toks[2], TRUE)
    ELSE IF Len(toks) = 3
    THEN IF toks[3] # "is_not_null" THEN Raised("TypeError")
         ELSE ColumnInfo(toks[1], toks[2], FALSE)
    ELSE Raised("TypeError")

\* parse_create.
parse_create(toks0) ==
    IF toks0 = <<>> THEN Raised("IndexError")
    ELSE IF toks0[1] # "table" THEN Raised("AssertionError")
    ELSE LET if_not_exists == toks0[Len(toks0)] = "if_not_exists"
             toks == IF if_not_exists THEN SubSeq(toks0, 1, Len(toks0) - 1) ELSE toks0
         IN  IF Len(toks) < 3 THEN Raised("IndexError")
             ELSE IF toks[3] # "(" \/ toks[Len(toks)] # ")" THEN Raised("AssertionError")
             ELSE LET cols == SplitLoop(PySlice(toks, 3, Len(toks) - 1), ",", 1, <<>>)
                      schema == [k \in DOMAIN cols |-> parse_create_col(cols[k])]
                  IN  IF \E k \in DOMAIN schema : IsRaised(schema[k])
                      THEN Raised("TypeError")
                      ELSE CreateQuery(toks[2], schema, if_not_exists)

\* parse_select_col: what fails is printed and None is returned.
parse_select_col(toks) ==
    IF toks = <<>> THEN PyNone
    ELSE IF toks[1] \in AggFuncStr
    THEN IF Len(toks) < 4 THEN PyNone
         ELSE IF toks[2] # "(" \/ toks[4] # ")" THEN PyNone
         ELSE IF Len(toks) <= 4 THEN AggExpr(toks[1], toks[3], NoneV)
         ELSE IF toks[5] # "as" THEN PyNone
         ELSE IF Len(toks) < 6 THEN PyNone
         ELSE AggExpr(toks[1], toks[3], SomeV(toks[6]))
    ELSE IF Len(toks) = 1 THEN ColumnRef(toks[1], NoneV)
    ELSE IF Len(toks) = 3
    THEN IF toks[2] # "as" THEN PyNone ELSE ColumnRef(toks[1], SomeV(toks[3]))
    ELSE PyNone

\* parse_select_cols.
parse_select_cols(toks) ==
    LET cols == SplitLoop(toks, ",", 1, <<>>)
    IN  [k \in DOMAIN cols |-> parse_select_col(cols[k])]

\* parse_where_expr: what fails is printed and None is returned.
parse_where_expr(toks) ==
    IF Len(toks) = 2
    THEN IF toks[2] \notin NullCondStr THEN PyNone
         ELSE PredicateTerm(toks[1], toks[2], PyNone)
    ELSE IF Len(toks) = 3
    THEN IF toks[2] \notin CmpStr THEN PyNone
         ELSE IF IsRaised(num_cast(toks[3])) THEN PyNone
         ELSE PredicateTerm(toks[1], toks[2], num_cast(toks[3]))
    ELSE PyNone

\* parse_where.
parse_where(toks) ==
    LET exprs == SplitLoop(toks, "and", 1, <<>>)
    IN  [k \in DOMAIN exprs |-> parse_where_expr(exprs[k])]

\* parse_groupby: one token is the answer; for any other number the loop
\* ends in raise ValueError, which is printed, and None is returned.
parse_groupby(toks) ==
    IF Len(toks) = 1 THEN SomeV(toks) ELSE NoneV

\* parse_select.
parse_select(toks) ==
    LET f == PyIndex(toks, "from")
        w == PyIndex(toks, "where")
        g == PyIndex(toks, "group_by")
    IN  IF f < 0 THEN Raised("ValueError")
        ELSE IF f + 2 > Len(toks) THEN Raised("IndexError")
        ELSE IF w >= 0 /\ g < 0 THEN Raised("ValueError")
        ELSE SelectQuery(toks[f + 2],
                         parse_select_cols(PySlice(toks, 0, f)),
                         IF w >= 0 THEN SomeV(parse_where(PySlice(toks, w + 1, g)))
                         ELSE NoneV,
                         IF g >= 0 THEN parse_groupby(PySlice(toks, g + 1, Len(toks) - 1))
                         ELSE NoneV)

\* parse.
parse(words) ==
    LET toks == preprocess_query(words)
    IN  IF toks = <<>> THEN Raised("IndexError")
        ELSE IF toks[1] = "select" THEN parse_select(Tail(toks))
        ELSE IF toks[1] = "create" THEN parse_create(Tail(toks))
        ELSE IF toks[1] = "insert" THEN parse_insert(Tail(toks))
        ELSE IF toks[1] = "drop" THEN parse_drop(Tail(toks))
        ELSE Raised("ValueError")


(***************************************************************************)
(* POST /query and POST /tasks/execute: route_external_query, the          *)
(* orchestrate_create / _drop / _insert handlers, send_task, and            *)
(* execute_task on the worker, which shares the database directory.        *)
(***************************************************************************)
\* DBConn.__init__(path, exist_ok: bool = False), as route_external_query
\* and execute_task call it.
exist_ok_default == FALSE

SelectRequest(raw_query) == [kind |-> "select", raw_query |-> raw_query]

\* The files an INSERT statement names.
SourceFiles == [src_path \in {"two.csv"} |-> TwoRows]

\* The statements sent to /query, as typed.
CreateWords ==
    <<"CREATE", "TABLE", "events", "(", "g", "VARCHAR", ",",
      "v", "smallint", "IS", "NOT", "NULL", ")">>

RouteStatements ==
    << CreateWords,
       CreateWords \o <<"IF", "NOT", "EXISTS">>,
       <<"DROP", "TABLE", "events">>,
       <<"DROP", "TABLE", "events", "IF", "EXISTS">>,
       <<"INSERT", "INTO", "events", "FROM", "two.csv">>,
       <<"SELECT", "AVG", "(", "v", ")", "FROM", "events">>,
       <<"DROP", "TABEL", "events">>,
       <<"UPDATE", "events">>,
       <<"SELECT", "g">>,
       <<"INSERT", "INTO", "events">>,
       <<"SELECT", "g", "AS", "FROM", "events">> >>

\* The statements above that are not statements of the grammar.
Malformed == {k \in DOMAIN RouteStatements : k >= 7}

\* TaskResponse(ok=True, result=...) and TaskResponse(ok=False, error=...).
TaskResponse(ok, msg) ==
    [ok |-> ok, result |-> IF ok THEN SomeV(msg) ELSE NoneV,
     error |-> IF ok THEN NoneV ELSE SomeV(msg)]

ExternalQueryResponse(ok, kind, chosen, result, error) ==
    [ok |-> ok, kind |-> kind,
     worker_id |-> IF chosen = NoneV THEN NoneV ELSE SomeV(TheV(chosen).worker_id),
     worker_url |-> IF chosen = NoneV THEN NoneV ELSE SomeV(TheV(chosen).base_url),
     result |-> result, error |-> error]

\* The kind each handler writes into its answers (orchestrator.py:40, 67, 98
\* and 227).
HandlerKind(q) ==
    CASE q.kind = "create" -> "select"
      [] q.kind = "drop"   -> "drop"
      [] q.kind = "insert" -> "insert"
      [] q.kind = "select" -> "select"

\* The task a handler builds from the parsed statement.
TaskOf(q) ==
    CASE q.kind = "create" ->
             [kind |-> "create", table |-> q.table, table_schema |-> q.schema,
              if_not_exists |-> q.if_not_exists]
      [] q.kind = "drop" -> DropRequest(q.table, SomeV(q.if_exists))
      [] q.kind = "insert" ->
             InsertRequest(q.table, SourceFiles[q.src_path], q.rows_per_shard)

\* The worker the handlers pick: the last of the live ones.
chosen_worker_last(ws) == ws[Len(ws)]

\* chosen = workers[0]
chosen_worker(ws) == ws[1]

\* route_external_query, lines 318-319: conn = DBConn(path), which makes the
\* directory and saves an empty catalog, and query = parse(raw_query).
\* Neither call is inside a try: what they raise leaves the function.
RouteStart(i) ==
    /\ rt.pc \in {"idle", "done", "raised"}
    /\ wpc = "idle"
    /\ dpc \in {"idle", "done", "raised"}
    /\ LET call == [RouteIdle EXCEPT !.toks = RouteStatements[i]]
           q == parse(RouteStatements[i])
       IN  IF DbDir \in dirs /\ ~exist_ok_default
           THEN /\ rt' = [call EXCEPT !.pc = "raised", !.err = "FileExistsError"]
                /\ UNCHANGED <<dirs, json_files>>
           ELSE /\ dirs' = dirs \cup {DbDir}
                /\ json_files' =
                      IF ReadJson(CatalogPath) = NoneV
                      THEN (CatalogPath :> CatalogDoc(<<>>)) @@ json_files
                      ELSE json_files
                /\ rt' = IF IsRaised(q)
                         THEN [call EXCEPT !.pc = "raised", !.err = q.raised]
                         ELSE [call EXCEPT !.pc = "dispatch", !.query = SomeV(q)]
    /\ UNCHANGED <<regVars, files, selVars, wrkVars, cliVars, fanout_call, conVars,
                   parse_call, load_call>>

\* orchestrate_create, orchestrate_drop and orchestrate_insert up to
\* send_task: no live worker is answered at once, else the task goes to the
\* first of list_active().  A SELECT goes to orchestrate_select.
RouteDispatch ==
    /\ rt.pc = "dispatch"
    /\ LET q == TheV(rt.query)
           ws == list_active(workers, now)
       IN  IF q.kind = "select"
           THEN /\ rt' = [rt EXCEPT !.pc = "select"]
                /\ UNCHANGED wresult
           ELSE IF ws = <<>>
           THEN /\ rt' = [rt EXCEPT !.pc = "done",
                            !.out = SomeV(ExternalQueryResponse(FALSE, HandlerKind(q),
                                             NoneV, NoneV, SomeV("No active workers")))]
                /\ UNCHANGED wresult
           ELSE /\ rt' = [rt EXCEPT !.pc = "rpc", !.chosen = SomeV(chosen_worker(ws)),
                            !.task = SomeV(TaskOf(q)), !.rpcs = rt.rpcs + 1]
                /\ wresult' = NoneV
    /\ UNCHANGED <<regVars, diskVars, selVars, cliVars, fanout_call, conVars, parse_call,
                   load_call, next_id, wpc, wreq, wcat, wman, wlast, wtb, wglob,
                   waw, before>>

\* orchestrate_select, entered from route_external_query.
RouteSelect ==
    /\ rt.pc = "select"
    /\ SelectStart([table |-> TheV(rt.query).table, select |-> <<>>,
                    where |-> NoneV, group_by |-> NoneV])

\* execute_task receives the task the handler sent.
ExecuteTask ==
    /\ rt.pc = "rpc"
    /\ wresult = NoneV
    /\ OpenConn(TheV(rt.task), exist_ok_default)

\* execute_task receives a task from a client of its own.
DirectTasks ==
    << [kind |-> "create", table |-> "events", table_schema |-> TableSchema,
        if_not_exists |-> FALSE],
       DropRequest("events", SomeV(TRUE)),
       InsertRequest("events", TwoRows, NoneV),
       SelectRequest(<<"select", "avg", "(", "v", ")", "from", "events">>) >>

DirectTask(i) ==
    /\ rt.pc # "rpc"
    /\ OpenConn(DirectTasks[i], exist_ok_default)

\* execute_task, lines 30-37, with a SelectRequest: none of the three
\* isinstance tests holds, result was never bound, and the test of line 37
\* raises UnboundLocalError, which line 42 turns into ok = false.
ExecSelect ==
    /\ wpc = "select"
    /\ WorkerDone(FALSE, "UnboundLocalError")
    /\ UNCHANGED <<regVars, selVars, cliVars, fanout_call, conVars, callVars, diskVars, next_id>>

\* What requests.post and the reading of the answer may come to, besides an
\* answer of the worker.
TaskOutcomes == {"refused", "timeout", "status", "badjson"}

\* send_task, lines 23-33, the worker's TaskResponse in hand.
send_task(kind, answer) ==
    [ok |-> answer.ok, kind |-> kind, result |-> answer.result, error |-> answer.error]

\* The worker has answered: send_task returns and the handler builds its
\* answer from it.
RouteReturn ==
    /\ rt.pc = "rpc"
    /\ wpc = "idle"
    /\ wresult # NoneV
    /\ LET resp == send_task(HandlerKind(TheV(rt.query)),
                             TaskResponse(TheV(wresult).ok, TheV(wresult).msg))
       IN  rt' = [rt EXCEPT !.pc = "done",
                     !.out = SomeV(ExternalQueryResponse(resp.ok,
                                      HandlerKind(TheV(rt.query)), rt.chosen,
                                      resp.result, resp.error))]
    /\ UNCHANGED <<regVars, diskVars, selVars, wrkVars, cliVars, fanout_call, conVars,
                   parse_call, load_call>>

\* The request to the worker fails.  requests.post (line 23) is not inside
\* a try, so a refused connection or a timeout leaves send_task, the handler
\* and route_external_query as an exception; a status of 400 and above and
\* an answer that is not a TaskResponse become ok = false.
RouteTransport(o) ==
    /\ rt.pc = "rpc"
    /\ o = "refused" => wresult = NoneV /\ wpc = "idle"
    /\ rt' = IF o \in {"refused", "timeout"}
             THEN [rt EXCEPT !.pc = "raised",
                             !.err = IF o = "refused" THEN "ConnectionError"
                                     ELSE "Timeout"]
             ELSE [rt EXCEPT !.pc = "done",
                     !.out = SomeV(ExternalQueryResponse(FALSE,
                                HandlerKind(TheV(rt.query)), rt.chosen, NoneV,
                                SomeV(IF o = "status" THEN "r.text"
                                      ELSE "Invalid worker response")))]
    /\ UNCHANGED <<regVars, diskVars, selVars, wrkVars, cliVars, fanout_call, conVars,
                   parse_call, load_call>>

InitRoute ==
    /\ now = 0
    /\ workers \in {<<>>, StaleWorker}
    /\ files = <<>>
    /\ dirs \in {{}, {DbDir}}
    /\ json_files = <<>>
    /\ InitSelect
    /\ InitWorker

NextRoute ==
    \/ \E w \in WorkerIds : Register(w)
    \/ \E i \in DOMAIN RouteStatements : RouteStart(i)
    \/ RouteDispatch
    \/ RouteSelect
    \/ ExecuteTask
    \/ \E i \in DOMAIN DirectTasks : DirectTask(i)
    \/ AtomicMkdir
    \/ AtomicOpenTmp
    \/ AtomicWriteTmp
    \/ AtomicReplace
    \/ Create
    \/ CreateSaveCatalog
    \/ Drop
    \/ Insert
    \/ ExecSelect
    \/ WorkerReturn
    \/ RouteReturn
    \/ \E o \in TaskOutcomes : RouteTransport(o)

SpecRoute == InitRoute /\ [][NextRoute]_vars


(***************************************************************************)
(* Opening the database.                                                   *)
(***************************************************************************)
\* C23: opening the database succeeds whether its directory is there or
\* not: no call of route_external_query ends in the FileExistsError of
\* DBConn, and no task is answered by execute_task before its handler was
\* entered.
C23_EveryCallGetsPastOpening ==
    [][/\ rt'.err # "FileExistsError"
       /\ (wpc = "idle" /\ wpc' = "idle") => wresult' \in {wresult, NoneV}]_vars


(***************************************************************************)
(* The routing of execute_task.                                            *)
(***************************************************************************)
\* C24: a SelectRequest for which execute_task has opened the database is
\* handed to the engine and answered ok = true with the confirmation of
\* worker_select, as the other three variants are handed to their handlers.
C24_SelectRequestIsExecuted ==
    [][(wpc = "select" /\ wpc' = "idle") =>
          wresult' = SomeV([ok |-> TRUE, msg |-> "Successfully"])]_vars


(***************************************************************************)
(* Statements that do not parse.                                           *)
(***************************************************************************)
MalformedInHand == \E i \in Malformed : rt.toks = RouteStatements[i]

\* C25: a malformed statement is a parse error, never a query with
\* placeholder parts, and route_external_query answers it ok = false with
\* kind = unknown without a request to any worker.
C25_MalformedIsAnsweredUnknown ==
    (MalformedInHand /\ rt.err # "FileExistsError") =>
        /\ rt.pc = "done"
        /\ rt.rpcs = 0
        /\ ~TheV(rt.out).ok
        /\ TheV(rt.out).kind = "unknown"


(***************************************************************************)
(* The kind of an answer.                                                  *)
(***************************************************************************)
\* C27: whatever the path, no live worker, a worker's answer or a failed
\* request, the kind of the answer to /query is the variant of the parsed
\* statement.
C27_AnswerKindIsStatementVariant ==
    /\ (rt.out # NoneV /\ rt.query # NoneV) =>
           TheV(rt.out).kind = TheV(rt.query).kind
    /\ (response # NoneV /\ rt.query # NoneV) =>
           TheV(response).kind = TheV(rt.query).kind


(***************************************************************************)
(* A request to a worker that fails in transport.                          *)
(***************************************************************************)
\* C26: a statement whose request to the worker fails in transport is
\* answered like a statement the worker refused: send_task hands back
\* ok = false and the dispatcher answers ok = false, naming the step and
\* its level; no exception ends the query.
C26_TransportFailureIsAnswered ==
    [][dpc = "rpc" =>
          /\ dpc' # "raised"
          /\ dpc' = "done" =>
                /\ ~TheV(response').ok
                /\ TheV(response').error.failed_step = executions'[Len(executions')]
                /\ TheV(response').error.level = level_i - 1]_vars


(***************************************************************************)
(* CREATE, DROP and INSERT: one request to the first live worker.          *)
(***************************************************************************)
\* C28: orchestrate_create, orchestrate_drop and orchestrate_insert answer
\* "No active workers" at once, without a request to any worker, when
\* list_active() is empty; otherwise they send one request, to the first
\* entry of list_active(), and the answer carries that worker's ok, result
\* and error as the worker gave them.
C28_OneRequestToFirstLiveWorker ==
    /\ [][(rt.pc = "dispatch" /\ rt' # rt /\ TheV(rt.query).kind # "select") =>
             IF list_active(workers, now) = <<>>
             THEN /\ rt'.pc = "done"
                  /\ rt'.rpcs = 0
                  /\ ~TheV(rt'.out).ok
                  /\ TheV(rt'.out).error = SomeV("No active workers")
                  /\ wrkVars' = wrkVars
             ELSE /\ rt'.pc = "rpc"
                  /\ rt'.rpcs = 1
                  /\ rt'.chosen = SomeV(list_active(workers, now)[1])
                  /\ TheV(rt'.task).kind = TheV(rt.query).kind
                  /\ TheV(rt'.task).table = TheV(rt.query).table]_vars
    /\ [][RouteReturn =>
             /\ rt'.rpcs = 1
             /\ TheV(rt'.out).ok = TheV(wresult).ok
             /\ TheV(rt'.out).result =
                   (IF TheV(wresult).ok THEN SomeV(TheV(wresult).msg) ELSE NoneV)
             /\ TheV(rt'.out).error =
                   (IF TheV(wresult).ok THEN NoneV ELSE SomeV(TheV(wresult).msg))
             /\ TheV(rt'.out).worker_id = SomeV(TheV(rt.chosen).worker_id)]_vars

\* With two live workers registered, a statement has been answered with
\* what the first of them answered to the one request sent.
C28_FirstOfTwoAnswered ==
    /\ rt.pc = "done"
    /\ rt.rpcs = 1
    /\ Len(list_active(workers, now)) = 2
    /\ TheV(rt.out).worker_id = SomeV(list_active(workers, now)[1].worker_id)
    /\ TheV(rt.out).error = SomeV("FileExistsError")


(***************************************************************************)
(* Manifest.from_dict, on the documents json.loads may hand to it.  A      *)
(* document maps its keys to values; a JSON number is IntV(n), a JSON      *)
(* string StrV(s).                                                         *)
(***************************************************************************)
ManifestKeys ==
    {"manifest_version", "table_name", "table_id", "rows_per_shard", "created_at",
     "schema", "shards"}

\* d.get(key, default)
DictGet(d, key, default) == IF key \in DOMAIN d THEN d[key] ELSE default

\* int(v): of a number, or of a string of digits; ValueError otherwise.
py_int(v) ==
    IF DOMAIN v = {"int"} THEN v
    ELSE IF IsDigit(v.str) THEN IntV(PyInt(v.str))
    ELSE Raised("ValueError")

\* str(v)
py_str(v) == IF DOMAIN v = {"int"} THEN ToString(v.int) ELSE v.str

\* ColumnInfo.from_dict: d["name"] and d["type"] must be there.
ColumnInfo_from_dict(d) ==
    IF "name" \notin DOMAIN d \/ "type" \notin DOMAIN d THEN Raised("KeyError")
    ELSE ColumnInfo(py_str(d.name), py_str(d.type), DictGet(d, "nullable", TRUE))

\* Manifest.from_dict and the validate() it ends with: every key is read
\* with d.get and a default, a key the class does not have is never looked
\* at, and manifest_version is whatever int() makes of the value.
from_dict(d) ==
    LET manifest_version == py_int(DictGet(d, "manifest_version", IntV(1)))
        rows_per_shard == py_int(DictGet(d, "rows_per_shard", IntV(100)))
        cols == DictGet(d, "schema", <<>>)
        schema == [k \in DOMAIN cols |-> ColumnInfo_from_dict(cols[k])]
        shards == DictGet(d, "shards", <<>>)
    IN  IF IsRaised(manifest_version) THEN manifest_version
        ELSE IF IsRaised(rows_per_shard) THEN rows_per_shard
        ELSE IF \E k \in DOMAIN schema : IsRaised(schema[k]) THEN Raised("KeyError")
        ELSE IF \E k \in DOMAIN shards : DOMAIN shards[k] # {"str"}
        THEN Raised("TypeError")
        ELSE [manifest_version |-> manifest_version.int,
              table_name |-> py_str(DictGet(d, "table_name", StrV(""))),
              table_id |-> py_str(DictGet(d, "table_id", StrV("uuid4"))),
              rows_per_shard |-> rows_per_shard.int,
              created_at |-> py_str(DictGet(d, "created_at", StrV("today"))),
              schema |-> schema,
              shards |-> [k \in DOMAIN shards |-> shards[k].str]]

\* The documents loaded: a manifest as Manifest.save writes it, with its
\* version, its rows_per_shard, its schema and its shard list varied, and
\* with keys left out or added.
DocField(key, opt) == IF opt = NoneV THEN <<>> ELSE (key :> TheV(opt))

LoadVersions ==
    {NoneV, SomeV(IntV(1)), SomeV(IntV(0)), SomeV(IntV(2)), SomeV(StrV("1")),
     SomeV(StrV("v1"))}

LoadRowsPerShard == {NoneV, SomeV(IntV(100)), SomeV(StrV("many"))}

LoadSchemas ==
    {<<>>, <<[name |-> StrV("g"), type |-> StrV("varchar"), nullable |-> TRUE]>>,
     <<[type |-> StrV("varchar")]>>}

LoadShards == {<<>>, <<StrV("shard-0.parquet")>>, <<IntV(0)>>}

LoadExtras == {NoneV, SomeV(StrV("me"))}

LoadDocs ==
    { DocField("manifest_version", v) @@ DocField("rows_per_shard", r)
        @@ DocField("owner", x)
        @@ [table_name |-> StrV("events"), table_id |-> StrV("id1"),
            created_at |-> StrV("2025-01-01"), schema |-> sc, shards |-> sh] :
        v \in LoadVersions, r \in LoadRowsPerShard, x \in LoadExtras,
        sc \in LoadSchemas, sh \in LoadShards }

\* Manifest.load(path), the text of the file read and decoded.
Load(d) ==
    /\ load_call' = SomeV([doc |-> d, out |-> from_dict(d)])
    /\ UNCHANGED <<regVars, diskVars, selVars, wrkVars, cliVars, fanout_call, conVars, rt,
                   parse_call>>

NextLoad == \E d \in LoadDocs : Load(d)

SpecLoad == InitApi /\ [][NextLoad]_vars

\* A document with a key that a manifest does not have, or with a
\* manifest_version that is not 1.
Defective(d) ==
    \/ ~(DOMAIN d \subseteq ManifestKeys)
    \/ ("manifest_version" \in DOMAIN d /\ d.manifest_version # IntV(1))

\* C29: Manifest.load raises for every document that has a key outside the
\* schema or a manifest_version other than 1, and returns a Manifest only
\* for documents with neither defect.
C29_DefectiveManifestIsRefused ==
    (load_call # NoneV /\ Defective(TheV(load_call).doc)) =>
        IsRaised(TheV(load_call).out)


(***************************************************************************)
(* parse on SELECT statements with a column list, a WHERE clause and a     *)
(* GROUP BY clause: each statement is written out from the query it stands *)
(* for, and parsed.                                                        *)
(***************************************************************************)
RECURSIVE JoinWords(_, _)
JoinWords(groups, sep) ==
    IF groups = <<>> THEN <<>>
    ELSE IF Len(groups) = 1 THEN groups[1]
    ELSE groups[1] \o <<sep>> \o JoinWords(Tail(groups), sep)

UpperOf(w) ==
    CASE w = "count" -> "COUNT"
      [] w = "avg"   -> "AVG"
      [] OTHER       -> w

ItemWords(item) ==
    (IF item.t = "col" THEN <<item.name>> ELSE <<UpperOf(item.func), "(", item.col, ")">>)
    \o (IF item.alias = NoneV THEN <<>> ELSE <<"AS", TheV(item.alias)>>)

LiteralWord(v) ==
    IF DOMAIN v = {"int"} THEN ToString(v.int)
    ELSE IF DOMAIN v = {"str"} THEN "'" \o v.str \o "'"
    ELSE ToString(v.whole) \o "." \o ToString(v.frac)

PredWords(p) ==
    CASE p.op = "is_null"     -> <<p.col, "IS", "NULL">>
      [] p.op = "is_not_null" -> <<p.col, "IS", "NOT", "NULL">>
      [] OTHER                -> <<p.col, p.op, LiteralWord(p.value)>>

StatementWords(q) ==
    <<"SELECT">> \o JoinWords([k \in DOMAIN q.select |-> ItemWords(q.select[k])], ",")
    \o <<"FROM", q.table, "WHERE">>
    \o JoinWords([k \in DOMAIN TheV(q.where) |-> PredWords(TheV(q.where)[k])], "AND")
    \o <<"GROUP", "BY">>
    \o JoinWords([k \in DOMAIN TheV(q.group_by) |-> <<TheV(q.group_by)[k]>>], ",")

SelectLists ==
    { <<ColumnRef("event_type", NoneV)>>,
      <<ColumnRef("event_type", NoneV), AggExpr("count", "*", NoneV),
        AggExpr("avg", "value", SomeV("avg_value"))>>,
      <<ColumnRef("event_type", SomeV("kind")), AggExpr("sum", "value", NoneV)>>,
      <<AggExpr("min", "value", SomeV("lo")), AggExpr("max", "value", SomeV("hi"))>>,
      <<AggExpr("count", "user_id", SomeV("n")), ColumnRef("user_id", NoneV),
        ColumnRef("event_type", NoneV)>> }

WhereLists ==
    { <<PredicateTerm("value", ">=", IntV(0)),
        PredicateTerm("user_id", "is_not_null", PyNone)>>,
      <<PredicateTerm("value", "<", FloatV(1, 5))>>,
      <<PredicateTerm("event_time", ">=", StrV("2025-01-01")),
        PredicateTerm("value", "!=", IntV(MaxLiteral)),
        PredicateTerm("user_id", "is_null", PyNone)>>,
      <<PredicateTerm("event_type", "=", StrV("a")),
        PredicateTerm("value", "<=", IntV(7))>>,
      <<PredicateTerm("user_id", ">", IntV(1))>> }

GroupByLists ==
    { <<"event_type">>, <<"event_type", "user_id">>, <<"user_id", "event_type">>,
      <<"event_type", "user_id", "value">>, <<"value">> }

ParseInputs ==
    { SelectQuery("events", sl, SomeV(wl), SomeV(gl)) :
        sl \in SelectLists, wl \in WhereLists, gl \in GroupByLists }

\* "SELECT event_type, COUNT(*), AVG(value) as avg_value FROM events WHERE
\* value >= 0 AND user_id IS NOT NULL GROUP BY event_type"
S2Query ==
    SelectQuery("events",
                <<ColumnRef("event_type", NoneV), AggExpr("count", "*", NoneV),
                  AggExpr("avg", "value", SomeV("avg_value"))>>,
                SomeV(<<PredicateTerm("value", ">=", IntV(0)),
                        PredicateTerm("user_id", "is_not_null", PyNone)>>),
                SomeV(<<"event_type">>))

Parse(q) ==
    /\ parse_call' = SomeV([query |-> q, words |-> StatementWords(q),
                            out |-> parse(StatementWords(q))])
    /\ UNCHANGED <<regVars, diskVars, selVars, wrkVars, cliVars, fanout_call, conVars, rt,
                   load_call>>

NextParse == \E q \in ParseInputs : Parse(q)

SpecParse == InitApi /\ [][NextParse]_vars

\* C30: a SELECT with a column list, a WHERE clause of predicates joined by
\* AND and a GROUP BY clause parses into the SelectQuery that has its items
\* in order, its predicates in order with their literals coerced, and its
\* grouping columns in order, one or several.
C30_SelectParsesIntoItsQuery ==
    parse_call # NoneV => TheV(parse_call).out = TheV(parse_call).query


(***************************************************************************)
(* The levels of a plan.                                                   *)
(***************************************************************************)
\* The places <<statement, input>> of level l that read file f.
ReadersOf(l, f) ==
    {p \in UNION {{<<j, k>> : k \in DOMAIN plan_levels[l][j].from} :
                     j \in DOMAIN plan_levels[l]} :
        plan_levels[l][p[1]].from[p[2]] = f}

\* C31: in every plan each statement above the map level reads only files
\* written by the level directly below it, and every file written at a
\* level is read at exactly one place of the next level; the map level
\* reads each shard of the table at exactly one place.  So no partial
\* result is dropped and none is read twice.
C31_EveryOutputReadOnceByNextLevel ==
    Planned =>
        /\ \A l \in 2..Len(plan_levels) :
              /\ LevelReads(l) \subseteq LevelOuts(l - 1)
              /\ \A f \in LevelOuts(l - 1) : Cardinality(ReadersOf(l, f)) = 1
        /\ \A i \in DOMAIN PlanShards :
              Cardinality(ReadersOf(1, PathOf(TheV(query).table, Str(PlanShards[i])))) = 1

\* A plan with a reduction level has just been made for a table of 257
\* shards: the second reduction statement reads the one map output that
\* the first leaves.
C31_ReductionLevelPlanned ==
    /\ Planned
    /\ Len(plan_levels) = 3
    /\ Len(PlanShards) = 257
    /\ plan_levels[2][2].from = <<plan_levels[1][257].out>>
    /\ plan_levels[3][1].from = <<plan_levels[2][1].out, plan_levels[2][2].out>>


\* The columns a statement names, and the columns of the file it writes.
StmtUses(stmt) ==
    UNION {ExprCols(stmt.select[i].e) : i \in DOMAIN stmt.select}
        \cup Range(stmt.group)
        \cup {stmt.where[i].col : i \in DOMAIN stmt.where}

StmtWrites(stmt) == {stmt.select[i].as : i \in DOMAIN stmt.select}

\* C32: in every plan each reduction statement and the final statement
\* name only columns that exist in the files they read, that is, columns
\* written by the statements of the level below whose outputs they read
\* (map measures when the level below is the map level, _partial columns
\* when it is a reduction level).
C32_UpperStatementsNameColumnsOfTheirInputs ==
    Planned =>
        \A l \in 2..Len(plan_levels) :
            \A j \in DOMAIN plan_levels[l], w \in DOMAIN plan_levels[l - 1] :
                plan_levels[l - 1][w].out \in Range(plan_levels[l][j].from)
                    => StmtUses(plan_levels[l][j]) \subseteq StmtWrites(plan_levels[l - 1][w])


(***************************************************************************)
(* INSERT on a worker that may be killed at any step.                      *)
(***************************************************************************)
\* The worker is killed inside write_dataset: the files written so far are
\* on disk, the later ones are not.
CrashInWrite ==
    /\ wpc = "insert_write"
    /\ LET table == TheV(wreq).table
           rps == IF TheV(wreq).rows_per_shard # NoneV
                  THEN TheV(TheV(wreq).rows_per_shard)
                  ELSE TheV(wman).rows_per_shard
           out == DatasetFiles(TheV(wtb), rps)
       IN  \E k \in 0..Len(out) :
              files' = [p \in {PathOf(table, Str(TmpShardName(i - 1))) : i \in 1..k} |->
                          out[CHOOSE i \in 1..k :
                                  p = PathOf(table, Str(TmpShardName(i - 1)))]]
                       @@ files
    /\ wpc' = "idle"
    /\ wreq' = NoneV
    /\ wcat' = <<>>
    /\ wman' = NoneV
    /\ wlast' = 0
    /\ wtb' = NoneV
    /\ wglob' = <<>>
    /\ waw' = NoneV
    /\ wresult' = NoneV
    /\ before' = NoneV
    /\ UNCHANGED <<regVars, selVars, cliVars, fanout_call, conVars, callVars, dirs, json_files, next_id>>

\* The table SelectTable as CREATE leaves it, without shards.
InitInsertCrash ==
    /\ now = 0
    /\ workers = <<>>
    /\ InitTable(0, 0)
    /\ InitSelect
    /\ InitWorker

\* An INSERT into SelectTable of a source that passes the validation.
OpenInsertValid ==
    \E i \in 1..3, r \in RowsPerShard :
        LET req == InsertRequest(SelectTable, Sources[i], r)
        IN  CanTake(req) /\ OpenConn(req, TRUE)

NextInsertCrash ==
    \/ OpenInsertValid
    \/ AtomicMkdir
    \/ AtomicOpenTmp
    \/ AtomicWriteTmp
    \/ AtomicReplace
    \/ Insert
    \/ InsertWrite
    \/ InsertRename
    \/ InsertSave
    \/ WorkerReturn
    \/ Crash
    \/ CrashInWrite

SpecInsertCrash == InitInsertCrash /\ [][NextInsertCrash]_vars

\* The shard names manifest.json lists for table t: none when the file is
\* absent.
ListedShards(t) ==
    LET m == ReadJson(ManifestPath(t))
    IN  IF m = NoneV THEN {}
        ELSE IF TheV(m) = Partial THEN {}
        ELSE Range(TheV(m).shards)

\* C33: in every state of the disk that an INSERT passes through, and in
\* every state a kill of the worker leaves, manifest.json is whole and each
\* shard name it lists is a file of the table directory.
C33_ListedShardsAreFiles ==
    \A t \in Tables :
        /\ ReadJson(ManifestPath(t)) # SomeV(Partial)
        /\ \A sh \in ListedShards(t) : PathOf(t, Str(sh)) \in DOMAIN files

\* The worker was killed between the renames and manifest.save of a later
\* INSERT: the manifest lists the shards of an earlier INSERT, and a shard
\* file it does not list is on disk.
C33_KilledBeforeManifestSave ==
    /\ wpc = "idle"
    /\ wresult = NoneV
    /\ ListedShards(SelectTable) # {}
    /\ \E i \in 0..MaxFileIndex :
          /\ PathOf(SelectTable, Str(ShardName(i))) \in DOMAIN files
          /\ ShardName(i) \notin ListedShards(SelectTable)


(***************************************************************************)
(* A query whose statements take time on the worker.                       *)
(***************************************************************************)
\* The statement in flight runs on the worker for d ticks.
RpcTakes(d) ==
    /\ dpc = "rpc"
    /\ Tick(d)

\* One live worker, and the waits of the dispatcher timed.
InitLongQuery ==
    /\ now = 0
    /\ workers = upsert(<<>>, WaitWorker, WorkerUrl(WaitWorker), 0, 0)
    /\ \E n \in 1..2 : InitTable(n, 0)
    /\ InitSelect
    /\ InitHandlers
    /\ wait_began = SomeV(0)

NextLongQuery ==
    \/ Heartbeat(WaitWorker)
    \/ \E q \in Queries : SelectStart(q)
    \/ WaitListActive
    \/ WaitChoose
    \/ WaitSleep
    \/ SendTask
    \/ \E d \in TickSteps : RpcTakes(d)
    \/ \E o \in RpcOutcomes : RpcReturn(o)
    \/ SelectFinish

SpecLongQuery == InitLongQuery /\ [][NextLongQuery]_vars

ClauseWords(q) ==
    <<"SELECT">> \o JoinWords([k \in DOMAIN q.select |-> ItemWords(q.select[k])], ",")
    \o <<"FROM", q.table>>
    \o (IF q.where = NoneV THEN <<>>
        ELSE <<"WHERE">>
             \o JoinWords([k \in DOMAIN TheV(q.where) |-> PredWords(TheV(q.where)[k])],
                          "AND"))
    \o (IF q.group_by = NoneV THEN <<>>
        ELSE <<"GROUP", "BY">>
             \o JoinWords([k \in DOMAIN TheV(q.group_by) |-> <<TheV(q.group_by)[k]>>],
                          ","))

ClauseInputs ==
    { SelectQuery("events", sl, w, g) :
        sl \in SelectLists,
        w \in {NoneV} \cup {SomeV(wl) : wl \in WhereLists},
        g \in {NoneV} \cup {SomeV(gl) : gl \in GroupByLists} }

ParseClauses(q) ==
    /\ parse_call' = SomeV([query |-> q, words |-> ClauseWords(q),
                            out |-> parse(ClauseWords(q))])
    /\ UNCHANGED <<regVars, diskVars, selVars, wrkVars, cliVars, fanout_call, conVars, rt,
                   load_call>>

NextClauses == \E q \in ClauseInputs : ParseClauses(q)

SpecClauses == InitApi /\ [][NextClauses]_vars

\* C35: whichever of the WHERE and GROUP BY clauses a SELECT has, parse
\* returns a SelectQuery, with where none when there is no WHERE clause and
\* group_by none when there is no GROUP BY clause.
C35_WhereAndGroupByAreOptional ==
    parse_call # NoneV =>
        LET q == TheV(parse_call).query
            out == TheV(parse_call).out
        IN  /\ ~IsRaised(out)
            /\ q.where = NoneV => out.where = NoneV
            /\ q.group_by = NoneV => out.group_by = NoneV


(***************************************************************************)
(* Two SELECT queries on the same database path.  /query is a synchronous  *)
(* handler, which the server runs on a thread of its pool for each         *)
(* request; the second orchestrate_select is kept in sel2, and a statement *)
(* of it runs on the worker in one step.                                   *)
(***************************************************************************)
\* Lines 229-256 for the second query: the same temporary directory, the
\* same output path.
Select2Start(q) ==
    /\ sel2 = NoneV
    /\ dirs' = dirs \cup {TmpDir}
    /\ LET m == ReadJson(ManifestPath(q.table))
       IN  sel2' = IF m = NoneV
                   THEN SomeV([pc |-> "raised", query |-> q, plan_levels |-> <<>>,
                               level_i |-> 1, sql_i |-> 1])
                   ELSE IF TheV(m).shards = <<>>
                   THEN SomeV([pc |-> "done", query |-> q, plan_levels |-> <<>>,
                               level_i |-> 1, sql_i |-> 1])
                   ELSE SomeV([pc |-> "run", query |-> q,
                               plan_levels |-> planner(q, TheV(m).shards, OutPath, TmpDir),
                               level_i |-> 1, sql_i |-> 1])
    /\ UNCHANGED <<regVars, selVars, wrkVars, cliVars, fanout_call, callVars, wait_began,
                   req2, files, json_files>>

\* Lines 253-295 for the second query: its next statement runs on the
\* worker, which answers ok when the engine can run it and ok = false when
\* it cannot; ok = false ends the query.
Select2Run ==
    /\ sel2 # NoneV
    /\ TheV(sel2).pc = "run"
    /\ LET c == TheV(sel2)
           stmt == c.plan_levels[c.level_i][c.sql_i]
       IN  IF ~StmtRuns(stmt, files)
           THEN /\ sel2' = SomeV([c EXCEPT !.pc = "failed"])
                /\ UNCHANGED files
           ELSE /\ files' = (stmt.out :> StmtOutput(stmt, files)) @@ files
                /\ sel2' = SomeV(IF c.sql_i < Len(c.plan_levels[c.level_i])
                                 THEN [c EXCEPT !.sql_i = c.sql_i + 1]
                                 ELSE IF c.level_i < Len(c.plan_levels)
                                 THEN [c EXCEPT !.level_i = c.level_i + 1, !.sql_i = 1]
                                 ELSE [c EXCEPT !.pc = "finish"])
    /\ UNCHANGED <<regVars, selVars, wrkVars, cliVars, fanout_call, callVars, wait_began,
                   req2, dirs, json_files>>

\* Line 304 for the second query: shutil.rmtree(tmp_path), which raises
\* when the directory is not there.
Select2Finish ==
    /\ sel2 # NoneV
    /\ TheV(sel2).pc = "finish"
    /\ IF TmpDir \notin dirs
       THEN /\ sel2' = SomeV([TheV(sel2) EXCEPT !.pc = "raised"])
            /\ UNCHANGED <<dirs, files>>
       ELSE /\ dirs' = rmtree_dir(dirs, TmpDir)
            /\ files' = [p \in {x \in DOMAIN files : x.dir # TmpDir} |-> files[p]]
            /\ sel2' = SomeV([TheV(sel2) EXCEPT !.pc = "done"])
    /\ UNCHANGED <<regVars, selVars, wrkVars, cliVars, fanout_call, callVars, wait_began,
                   req2, json_files>>

InitTwoSelects ==
    /\ now = 0
    /\ workers = upsert(<<>>, "w1", WorkerUrl("w1"), 0, 0)
    /\ \E n \in 1..2 : InitTable(n, 0)
    /\ InitSelect
    /\ InitWorker

NextTwoSelects ==
    \/ \E q \in Queries : SelectStart(q)
    \/ WaitListActive
    \/ WaitChoose
    \/ SendTask
    \/ \E o \in RpcOutcomes : RpcReturn(o)
    \/ SelectFinish
    \/ \E q \in Queries : Select2Start(q)
    \/ Select2Run
    \/ Select2Finish

SpecTwoSelects == InitTwoSelects /\ [][NextTwoSelects]_vars

\* The files the statements of a plan write, and the files of the temporary
\* directory that the statements from <<l, i>> on still read.
PlanOuts(levels) ==
    UNION {{levels[l][i].out : i \in DOMAIN levels[l]} : l \in DOMAIN levels}

StillRead(levels, l, i) ==
    UNION {UNION {IF k > l \/ j >= i
                  THEN {f \in Range(levels[k][j].from) : f.dir = TmpDir}
                  ELSE {} : j \in DOMAIN levels[k]} : k \in l..Len(levels)}

\* The first query is between two of its statements; the second has
\* statements left to run.
FirstInProgress == dpc \in {"wait", "choose", "send", "rpc"} /\ plan_levels # <<>>

SecondInProgress == sel2 # NoneV /\ TheV(sel2).pc = "run"

\* C36: two SELECT queries running at once on the same database path keep
\* apart: no file is written by statements of both, and the temporary files
\* that one has written and still has to read stay on disk until it has
\* read them, whatever the other does, its final rmtree included.
C36_ConcurrentSelectsKeepApart ==
    /\ (FirstInProgress /\ SecondInProgress)
          => PlanOuts(plan_levels) \cap PlanOuts(TheV(sel2).plan_levels) = {}
    /\ (FirstInProgress /\ level_i > 1 /\ sel2 # NoneV)
          => StillRead(plan_levels, level_i, sql_i) \subseteq DOMAIN files


(***************************************************************************)
(* Two requests in the hands of one worker.  /tasks/execute is a           *)
(* synchronous handler, which the server runs on a thread of its pool for  *)
(* each request; the second request is kept in req2.  Its own DBConn holds *)
(* its own Catalog object.  The writes of _atomic_write_text to a          *)
(* manifest are taken in one step, those to catalog.json in two: the       *)
(* temporary file written, then os.replace.                                *)
(***************************************************************************)
Req2Done(c, ok, msg) == SomeV([c EXCEPT !.pc = "done", !.ok = ok, !.msg = msg])

\* _atomic_write_text(path, text) in one step.
Written(jf, path, text) ==
    IF TmpPath(path) = path THEN (path :> text) @@ jf
    ELSE FnRemove((path :> text) @@ jf, TmpPath(path))

\* DBConn(path, exist_ok) and the dispatch of execute_task.
Open2(req, exist_ok) ==
    /\ req2 = NoneV
    /\ LET c == [pc |-> req.kind, req |-> req, cat |-> <<>>, ok |-> FALSE, msg |-> ""]
       IN  IF DbDir \in dirs /\ ~exist_ok
           THEN /\ req2' = Req2Done(c, FALSE, "FileExistsError")
                /\ UNCHANGED <<dirs, json_files>>
           ELSE /\ dirs' = dirs \cup {DbDir}
                /\ IF ReadJson(CatalogPath) = NoneV
                   THEN /\ json_files' = Written(json_files, CatalogPath, CatalogDoc(<<>>))
                        /\ req2' = SomeV(c)
                   ELSE IF TheV(ReadJson(CatalogPath)) = Partial
                   THEN /\ req2' = Req2Done(c, FALSE, "JSONDecodeError")
                        /\ UNCHANGED json_files
                   ELSE /\ req2' = SomeV([c EXCEPT !.cat = TheV(ReadJson(CatalogPath)).tables])
                        /\ UNCHANGED json_files
    /\ UNCHANGED <<regVars, selVars, wrkVars, cliVars, fanout_call, callVars, wait_began,
                   sel2, files>>

\* worker_create, lines 83-105.
Create2 ==
    /\ req2 # NoneV
    /\ TheV(req2).pc = "create"
    /\ LET c == TheV(req2)
           table == c.req.table
       IN  IF get_table(c.cat, table) # NoneV
           THEN /\ req2' = Req2Done(c, TRUE, "already created")
                /\ UNCHANGED <<dirs, json_files, next_id>>
           ELSE IF table \in dirs
           THEN /\ req2' = Req2Done(c, FALSE, "FileExistsError")
                /\ UNCHANGED <<dirs, json_files, next_id>>
           ELSE /\ next_id <= MaxTableIds
                /\ dirs' = dirs \cup {table}
                /\ next_id' = next_id + 1
                /\ json_files' = Written(json_files, ManifestPath(table),
                                         Manifest(table, c.req.table_schema, next_id))
                /\ req2' = SomeV([c EXCEPT !.cat = create_table(c.cat, table, next_id),
                                           !.pc = "save_write"])
    /\ UNCHANGED <<regVars, selVars, cliVars, fanout_call, callVars, wait_began, sel2,
                   files, wpc, wreq, wcat, wman, wlast, wtb, wglob, waw, wresult, before>>

\* worker_drop, lines 120-128.
Drop2 ==
    /\ req2 # NoneV
    /\ TheV(req2).pc = "drop"
    /\ LET c == TheV(req2)
           table == c.req.table
           if_exists == IF c.req.if_exists # NoneV THEN TheV(c.req.if_exists) ELSE FALSE
       IN  IF table \notin DOMAIN c.cat /\ ~if_exists
           THEN /\ req2' = Req2Done(c, FALSE, "IndexError")
                /\ UNCHANGED <<dirs, files, json_files>>
           ELSE /\ req2' = SomeV([c EXCEPT !.cat = IF table \in DOMAIN c.cat
                                                   THEN drop_table(c.cat, table)
                                                   ELSE c.cat,
                                           !.pc = "save_write"])
                /\ IF table \in dirs
                   THEN RmtreeFiles(table) /\ dirs' = dirs \ {table}
                   ELSE UNCHANGED <<dirs, files, json_files>>
    /\ UNCHANGED <<regVars, selVars, wrkVars, cliVars, fanout_call, callVars, wait_began,
                   sel2>>

\* conn.catalog.save, utils.py lines 22-23: the temporary file is written.
Save2Write ==
    /\ req2 # NoneV
    /\ TheV(req2).pc = "save_write"
    /\ json_files' = (TmpPath(CatalogPath) :> CatalogDoc(TheV(req2).cat)) @@ json_files
    /\ req2' = SomeV([TheV(req2) EXCEPT !.pc = "save_replace"])
    /\ UNCHANGED <<regVars, selVars, wrkVars, cliVars, fanout_call, callVars, wait_began,
                   sel2, files, dirs>>

\* utils.py line 24: os.replace(tmp, path), and the handler's answer.
Save2Replace ==
    /\ req2 # NoneV
    /\ TheV(req2).pc = "save_replace"
    /\ LET tmp == TmpPath(CatalogPath)
       IN  IF tmp \notin DOMAIN json_files
           THEN /\ req2' = Req2Done(TheV(req2), FALSE, "FileNotFoundError")
                /\ UNCHANGED json_files
           ELSE /\ json_files' = FnRemove((CatalogPath :> json_files[tmp]) @@ json_files, tmp)
                /\ req2' = Req2Done(TheV(req2), TRUE, "Successfully")
    /\ UNCHANGED <<regVars, selVars, wrkVars, cliVars, fanout_call, callVars, wait_began,
                   sel2, files, dirs>>

\* The table ids of the tables created before the worker started.
OldId(t) == IF t = SelectTable THEN 0 ELSE 0 - 1

\* A database in which the tables of T have been created.
InitTwoRequests ==
    /\ now = 0
    /\ workers = <<>>
    /\ files = <<>>
    /\ InitSelect
    /\ InitHandlers
    /\ wait_began = NoneV
    /\ \E T \in SUBSET Tables :
          /\ dirs = {DbDir} \cup T
          /\ json_files =
                [p \in {CatalogPath} \cup {ManifestPath(t) : t \in T} |->
                    IF p = CatalogPath
                    THEN CatalogDoc([t \in T |-> OldId(t)])
                    ELSE Manifest(p.dir, TableSchema, OldId(p.dir))]

\* The first request: one CREATE or DROP.
OpenFirst ==
    /\ wresult = NoneV
    /\ OpenCreate \/ OpenDrop

OpenSecond ==
    \/ \E t \in Tables, if_not_exists \in BOOLEAN, exist_ok \in BOOLEAN :
          Open2(CreateRequest(t, if_not_exists), exist_ok)
    \/ \E t \in Tables, e \in {NoneV, SomeV(TRUE)}, exist_ok \in BOOLEAN :
          Open2(DropRequest(t, e), exist_ok)

NextTwoRequests ==
    \/ OpenFirst
    \/ AtomicMkdir
    \/ AtomicOpenTmp
    \/ AtomicWriteTmp
    \/ AtomicReplace
    \/ Create
    \/ CreateSaveCatalog
    \/ Drop
    \/ DropRmdir
    \/ WorkerReturn
    \/ OpenSecond
    \/ Create2
    \/ Drop2
    \/ Save2Write
    \/ Save2Replace

SpecTwoRequests == InitTwoRequests /\ [][NextTwoRequests]_vars

\* What a request that succeeded leaves in catalog.json: the table it
\* created is named, the table it dropped is not.
Survives(req) ==
    IF req.kind = "create" THEN req.table \in DOMAIN CatalogTables
    ELSE req.table \notin DOMAIN CatalogTables

\* C37: when a CREATE or DROP and another CREATE or DROP of a different
\* table, handled by one worker at the same time, have both succeeded,
\* catalog.json names every table they created and none they dropped.
C37_BothCatalogUpdatesSurvive ==
    (/\ wpc = "return"
     /\ req2 # NoneV
     /\ TheV(req2).pc = "done"
     /\ TheV(req2).ok
     /\ TheV(req2).req.table # TheV(wreq).table)
        => Survives(TheV(wreq)) /\ Survives(TheV(req2).req)


(***************************************************************************)
(* One worker's thread and an orchestrator that stays up: every request is *)
(* delivered, a heartbeat request taking up to its timeout to be answered. *)
(***************************************************************************)
request_timeout_s == 5

\* When the heartbeat request in flight was sent: at the end of the sleep
\* before it, or on the return of the registration.
RequestSent(w) ==
    LET i == IndexOfWorker(workers, w)
    IN  IF i # 0 /\ workers[i].last_seen > cwake[w] THEN workers[i].last_seen
        ELSE cwake[w]

\* Time passes while the thread sleeps.
AliveTick ==
    /\ cpc[BeatWorker] # "off"
    /\ BeatTick

\* Time passes while the heartbeat request is in flight.
RequestTick ==
    /\ cpc[BeatWorker] = "heartbeat"
    /\ now + 1 <= RequestSent(BeatWorker) + request_timeout_s * TicksPerSecond
    /\ Tick(1)

InitAlive ==
    /\ now = 0
    /\ workers = <<>>
    /\ InitTable(0, 0)
    /\ InitSelect
    /\ InitWorker

NextAlive ==
    \/ ClientStart(BeatWorker)
    \/ ClientRegister(BeatWorker, "delivered")
    \/ ClientHeartbeat(BeatWorker, "delivered")
    \/ ClientWake(BeatWorker)
    \/ AliveTick
    \/ RequestTick

SpecAlive == InitAlive /\ [][NextAlive]_vars

\* C38: a worker that has registered and whose heartbeats, sent every
\* heartbeat_seconds and answered within the request timeout, all reach the
\* orchestrator is in list_active() at every instant from its registration
\* on.
C38_BeatingWorkerStaysListed ==
    IndexOfWorker(workers, BeatWorker) # 0
        => \E i \in DOMAIN list_active(workers, now) :
              list_active(workers, now)[i].worker_id = BeatWorker

\* More than twice the TTL after its registration the worker is listed,
\* with a heartbeat in flight for the whole of the request timeout.
C38_ListedLongAfterRegistration ==
    /\ now > 2 * ttl
    /\ cpc[BeatWorker] = "heartbeat"
    /\ IndexOfWorker(workers, BeatWorker) # 0
    /\ list_active(workers, now) # <<>>
    /\ now - workers[1].last_seen = hb_ticks + request_timeout_s * TicksPerSecond


\* The files write_dataset makes of the data of the INSERT in hand.
OwnFiles ==
    DatasetFiles(TheV(wtb),
                 IF TheV(wreq).rows_per_shard # NoneV
                 THEN TheV(TheV(wreq).rows_per_shard)
                 ELSE TheV(wman).rows_per_shard)

\* The shards the INSERT in hand has added to the manifest on disk.
AddedShards ==
    LET t == TheV(wreq).table
        old == ShardsIn(TheV(before).json_files, t)
        new == ShardsIn(json_files, t)
    IN  SubSeq(new, Len(old) + 1, Len(new))

\* C39: when an INSERT returns, the shards it has added to the manifest are
\* the files made of its own data, one shard for each, whatever an earlier
\* INSERT that was killed before its manifest.save left in the directory.
C39_InsertPublishesOnlyItsOwnData ==
    InsertReturns =>
        /\ Len(AddedShards) = Len(OwnFiles)
        /\ \A k \in DOMAIN AddedShards :
              files[PathOf(TheV(wreq).table, Str(AddedShards[k]))] \in Range(OwnFiles)


\* The request in hand is a CREATE of a table whose directory is on disk
\* and which the catalog does not name: an earlier CREATE of it was killed
\* between its mkdir and its catalog save.
CreateAfterInterruptedCreate ==
    /\ wpc = "create"
    /\ TheV(wreq).table \in dirs
    /\ TheV(wreq).table \notin DOMAIN wcat

\* C40: a CREATE of a table whose earlier CREATE was killed after the
\* table directory was made and before catalog.json was saved is not
\* refused: it goes on to write the manifest and the catalog entry.
C40_CreateAfterInterruptedCreateGoesOn ==
    [][(CreateAfterInterruptedCreate /\ wresult' # NoneV) => TheV(wresult').ok]_vars

=============================================================================
